---- MODULE Spec2Model ----
(***************************************************************************)
(* A model of the llmpapers ingestion pipeline: the arXiv collector        *)
(* (fetchPapersForQuery, fetchPapersMultiQuery), the categorizer, the      *)
(* deduplicator and merger, the year partitions written by the full,       *)
(* incremental and run-fetch entry points, and the index builder.          *)
(*                                                                         *)
(* Four specifications share the module:                                   *)
(*   Spec       the entry points running against the two data directories  *)
(*   SpecMerge  mergePapers applied to bounded inputs, once and twice      *)
(*   SpecIndex  buildIndex applied to bounded partitions and block-lists   *)
(*   SpecFetch  the paginated multi-query collector against an upstream    *)
(***************************************************************************)
EXTENDS Integers, Sequences, FiniteSets, TLC

VARIABLES
    \* ---- Spec: the entry points and the files they touch
    dataPapers,      \* data/papers/<year>.json          : year -> papers
    publicPapers,    \* public/data/papers/<year>.json   : year -> papers
    index,           \* public/data/index.json           : None or Some(index)
    blocklist,       \* public/data/blocklist.json       : None or Some(entries)
    pc,              \* position of the running entry point
    runKind,         \* "full", "incremental", "fetch" or "none"
    papersByYear,    \* the batch of the run, grouped by year
    yearsLeft,       \* years of the batch still to be written, in loop order
    savedYears,      \* years of the batch this run has written
    indexWritten,    \* whether this run has rewritten index.json
    exitCode,        \* process exit status of the last run
    \* ---- SpecMerge: mergePapers on bounded inputs
    mExisting, mIncoming, mOnce, mTwice, mpc,
    \* ---- SpecIndex: buildIndex on bounded inputs
    iPapers, iBlock, iIndex, ipc,
    \* ---- SpecFetch: the collector
    fq,              \* index of the query being fetched (1-based)
    fpc,             \* position inside fetchPapersMultiQuery / fetchPapersForQuery
    start,           \* fetchPapersForQuery: start offset
    hasMore,         \* fetchPapersForQuery: loop flag
    qPapers,         \* fetchPapersForQuery: allPapers of the current query
    allPapers,       \* fetchPapersMultiQuery: allPapers
    seenIds,         \* fetchPapersMultiQuery: seenIds
    qLog,            \* per query: how its fetch ended and what it returned
    lastReq,         \* the last page request issued and how it was answered
    maxResults,      \* options.maxResults (Infinity when not given)
    \* ---- SpecCategorize: categorizePaper on bounded inputs
    cPaper, cCategories, cResult, cpc,
    \* ---- SpecExtract: extractArxivId on bounded inputs
    xUrl, xResult, xpc,
    \* ---- SpecParse: one page request of fetchPapersForQuery, parsed
    pFeed,           \* the entries of the upstream's answer
    pStart,          \* the offset of the request
    pParsed,         \* what parseArxivXML returned (None: it threw)
    pOutcome,        \* what the page left in fetchPapersForQuery
    ppc,
    \* ---- SpecBuild: buildAndSaveIndex on the files it finds
    bDir,            \* public/data/papers (None: no directory), else its files
    bBlock,          \* public/data/blocklist.json
    bWritable,       \* whether public/data/index.json can be written
    bOld,            \* index.json before the call
    bIndex,          \* index.json after the call
    bOutcome,        \* "returned" or "threw"
    bpc,
    \* ---- SpecRate: the shared RateLimiter and the requests behind it
    now,             \* Date.now()
    lastRequestTime, \* rateLimiter.lastRequestTime
    callNow,         \* the const now of the wait() call in progress
    wakeAt,          \* when the timer of the call in progress is due
    rq,              \* index of the query being fetched
    waitDone,        \* times at which wait() completed
    requests,        \* requests issued: [at, q]
    rpc,
    \* ---- SpecSave: the year files under a run that can be killed
    sFiles,          \* data/papers/<year>.json (None: no file), else its text
    sInitial,        \* the year files before the first run
    sBatch,          \* papersByYear of the incoming batch
    sYears,          \* years the running loop has not finished
    sPending,        \* text fs.writeFile has not written yet
    sCompleted,      \* saveYearPapers calls the first run completed
    sKill,           \* where the first run was killed
    sRun,            \* 1: the first run, 2: the run that follows a kill
    spc,
    \* ---- SpecEntry: one whole run of updateFull or updateIncremental
    eKind,           \* "full" or "incremental"
    eReadable,       \* whether categories.json can be read
    eBatch,          \* what fetchPapersMultiQuery returns
    eData,           \* data/papers
    ePublic,         \* public/data/papers
    eIndex,          \* public/data/index.json
    eBlock,          \* public/data/blocklist.json
    eBefore,         \* the partitions and the index before the run
    eExit,           \* exit status of the process
    epc,
    \* ---- SpecDedup: deduplicatePapers on a list
    dPapers,         \* the argument
    dResult,         \* {unique, duplicates}
    dpc,
    \* ---- SpecLists: SearchFilter's blocklist and savedlist (search.js)
    fBlocklist,      \* this.blocklist, a Set in insertion order
    fSavedlist,      \* this.savedlist, a Set in insertion order
    lsBlocklist,     \* localStorage item 'blocklist'
    lsSavedlist,     \* localStorage item 'savedlist'
    \* ---- SpecRecat: SearchFilter.recategorizePapers (search.js)
    rPapers,         \* this.papers
    rLoaded,         \* the papers as they were loaded from index.json
    rCustom,         \* the customKeywords of the last call
    rCount,          \* the updatedCount the last call returned
    rRemoved,        \* the last call came with a keyword fewer than the call before
    rcpc

runVars == <<dataPapers, publicPapers, index, blocklist, pc, runKind,
             papersByYear, yearsLeft, savedYears, indexWritten, exitCode>>
mergeVars == <<mExisting, mIncoming, mOnce, mTwice, mpc>>
indexVars == <<iPapers, iBlock, iIndex, ipc>>
fetchVars == <<fq, fpc, start, hasMore, qPapers, allPapers, seenIds, qLog, lastReq,
               maxResults>>
catVars == <<cPaper, cCategories, cResult, cpc>>
extractVars == <<xUrl, xResult, xpc>>
parseVars == <<pFeed, pStart, pParsed, pOutcome, ppc>>
recatVars == <<rPapers, rLoaded, rCustom, rCount, rRemoved, rcpc>>
listsVars == <<fBlocklist, fSavedlist, lsBlocklist, lsSavedlist>>
dedupVars == <<dPapers, dResult, dpc>>
entryVars == <<eKind, eReadable, eBatch, eData, ePublic, eIndex, eBlock, eBefore, eExit, epc>>
saveVars == <<sFiles, sInitial, sBatch, sYears, sPending, sCompleted, sKill, sRun, spc>>
rateVars == <<now, lastRequestTime, callNow, wakeAt, rq, waitDone, requests, rpc>>
buildVars == <<bDir, bBlock, bWritable, bOld, bIndex, bOutcome, bpc>>
unitVars == <<catVars, extractVars, parseVars, buildVars, rateVars, saveVars, entryVars, dedupVars, listsVars, recatVars>>
otherThanCat == <<runVars, mergeVars, indexVars, fetchVars, extractVars, parseVars,
                  buildVars, rateVars, saveVars, entryVars, dedupVars, listsVars, recatVars>>
otherThanExtract == <<runVars, mergeVars, indexVars, fetchVars, catVars, parseVars,
                      buildVars, rateVars, saveVars, entryVars, dedupVars, listsVars, recatVars>>
otherThanParse == <<runVars, mergeVars, indexVars, fetchVars, catVars, extractVars,
                    buildVars, rateVars, saveVars, entryVars, dedupVars, listsVars, recatVars>>
otherThanBuild == <<runVars, mergeVars, indexVars, fetchVars, catVars, extractVars, parseVars, rateVars, saveVars, entryVars, dedupVars, listsVars, recatVars>>
otherThanRate == <<runVars, mergeVars, indexVars, fetchVars, catVars, extractVars, parseVars, buildVars, saveVars, entryVars, dedupVars, listsVars, recatVars>>
otherThanSave == <<runVars, mergeVars, indexVars, fetchVars, catVars, extractVars, parseVars, buildVars, rateVars, entryVars, dedupVars, listsVars, recatVars>>
otherThanEntry == <<runVars, mergeVars, indexVars, fetchVars, catVars, extractVars, parseVars, buildVars, rateVars, saveVars, dedupVars, listsVars, recatVars>>
otherThanDedup == <<runVars, mergeVars, indexVars, fetchVars, catVars, extractVars, parseVars, buildVars, rateVars, saveVars, entryVars, listsVars, recatVars>>
otherThanLists == <<runVars, mergeVars, indexVars, fetchVars, catVars, extractVars, parseVars, buildVars, rateVars, saveVars, entryVars, dedupVars, recatVars>>
otherThanRecat == <<runVars, mergeVars, indexVars, fetchVars, catVars, extractVars, parseVars, buildVars, rateVars, saveVars, entryVars, dedupVars, listsVars>>
vars == <<runVars, mergeVars, indexVars, fetchVars, unitVars>>

----------------------------------------------------------------------------
(* Bounds of the model *)

MaxId == 3            \* paper ids are 1..MaxId
MaxVer == 2           \* revisions of a paper the upstream may serve
MaxBatch == 2         \* records in the batch of one run
MaxExisting == 2      \* SpecMerge: length of the existing list
MaxIncoming == 2      \* SpecMerge: length of the incoming batch
MaxIndexPapers == 3   \* SpecIndex: records over all partitions
MaxBlocked == 2       \* entries of blocklist.json

----------------------------------------------------------------------------
(* Optional values: a JavaScript property that may be undefined *)

None == <<>>
Some(x) == <<x>>

RECURSIVE SeqsUpTo(_, _)
SeqsUpTo(S, n) ==
    IF n = 0 THEN {<<>>}
    ELSE LET shorter == SeqsUpTo(S, n - 1)
         IN shorter \cup {Append(s, x) : s \in {t \in shorter : Len(t) = n - 1}, x \in S}

Range(s) == {s[i] : i \in 1..Len(s)}
IdsOf(s) == {s[i].id : i \in 1..Len(s)}
UniqueIds(s) == \A i, j \in 1..Len(s) : s[i].id = s[j].id => i = j

----------------------------------------------------------------------------
(* Dates.  A date is the integer yyyymm (0: the property is absent); the    *)
(* year is what parseInt(publishedDate.substring(0, 4)) yields.             *)

YearOf(date) == date \div 100

\* new Date(a) > new Date(b): false when either side is an Invalid Date
DateGreater(a, b) == a # 0 /\ b # 0 /\ a > b

----------------------------------------------------------------------------
(* Paper records.  A record carries the fields the pipeline reads:          *)
(*   id, title, abstract, publishedDate, updatedDate (0: absent),           *)
(*   categories (None: absent, Some(seq): an array, possibly empty),        *)
(*   tags (None: absent, Some([auto, manual]) with optional members).       *)
(* Titles and abstracts are sequences of one-character strings.             *)

Paper(id, title, abstract, published, updated, cats, tags) ==
    [id |-> id, title |-> title, abstract |-> abstract,
     publishedDate |-> published, updatedDate |-> updated,
     categories |-> cats, tags |-> tags]

Tags(auto, manual) == Some([auto |-> auto, manual |-> manual])

\* The category definitions loaded from categories.json
Categories ==
    << [id |-> "agents",    keywords |-> << <<"a", "g">>, <<"A">> >>],
       [id |-> "reasoning", keywords |-> << <<"R">> >>] >>

----------------------------------------------------------------------------
(* Categorizer (categorize-papers.js) *)

MIN_KEYWORD_MATCHES == 1

\* String.prototype.toLowerCase over the model's alphabet
LowerChar(c) == CASE c = "A" -> "a" [] c = "G" -> "g" [] c = "R" -> "r" [] OTHER -> c
\* the comparison without toLowerCase
KeepCase(s) == s

ToLower(s) == [i \in 1..Len(s) |-> LowerChar(s[i])]

\* String.prototype.includes
Includes(text, kw) ==
    \E i \in 0..(Len(text) - Len(kw)) : SubSeq(text, i + 1, i + Len(kw)) = kw

\* the inner loop of categorizePaper: keywords of the category found in text
MatchCount(text, category) ==
    Cardinality({k \in 1..Len(category.keywords) :
                    Includes(text, ToLower(category.keywords[k]))})

\* a sort that puts an entry before the entries of equal match count
InsertByMatchesBeforeEqual(sorted, x) ==
    LET before == Cardinality({i \in 1..Len(sorted) : sorted[i].matches > x.matches})
    IN SubSeq(sorted, 1, before) \o <<x>> \o SubSeq(sorted, before + 1, Len(sorted))

\* Array.prototype.sort((a, b) => b.matches - a.matches): stable, descending
InsertByMatches(sorted, x) ==
    LET before == Cardinality({i \in 1..Len(sorted) : sorted[i].matches >= x.matches})
    IN SubSeq(sorted, 1, before) \o <<x>> \o SubSeq(sorted, before + 1, Len(sorted))

RECURSIVE SortByMatches(_)
SortByMatches(s) ==
    IF s = <<>> THEN <<>>
    ELSE InsertByMatches(SortByMatches(SubSeq(s, 1, Len(s) - 1)), s[Len(s)])

RECURSIVE MatchedCategories(_, _, _)
MatchedCategories(text, categories, i) ==
    IF i > Len(categories) THEN <<>>
    ELSE LET n == MatchCount(text, categories[i])
             rest == MatchedCategories(text, categories, i + 1)
         IN IF n >= MIN_KEYWORD_MATCHES
            THEN <<[id |-> categories[i].id, matches |-> n]>> \o rest
            ELSE rest

categorizePaper(paper, categories) ==
    LET text == ToLower(paper.title \o <<" ">> \o paper.abstract)
        sorted == SortByMatches(MatchedCategories(text, categories, 1))
    IN [i \in 1..Len(sorted) |-> sorted[i].id]

categorizePapers(papers, categories) ==
    [i \in 1..Len(papers) |->
        LET categoryIds == categorizePaper(papers[i], categories)
        IN [papers[i] EXCEPT !.categories = Some(categoryIds),
                             !.tags = Tags(Some(categoryIds), Some(<<>>))]]

----------------------------------------------------------------------------
(* Deduplicator and merger (utils/deduplicator.js) *)

\* A JavaScript Map keyed by paper id, as the sequence of its values in
\* insertion order; Map.set on a present key keeps the key's position.
MapHas(map, id) == \E i \in 1..Len(map) : map[i].id = id
MapGet(map, id) == map[CHOOSE i \in 1..Len(map) : map[i].id = id]
MapSet(map, paper) ==
    IF MapHas(map, paper.id)
    THEN [i \in 1..Len(map) |-> IF map[i].id = paper.id THEN paper ELSE map[i]]
    ELSE Append(map, paper)

\* a duplicate is reported with its own title as the title it duplicates
RECURSIVE deduplicateFromNamingItself(_, _, _, _)
deduplicateFromNamingItself(papers, i, unique, duplicates) ==
    IF i > Len(papers) THEN [unique |-> unique, duplicates |-> duplicates]
    ELSE IF ~MapHas(unique, papers[i].id)
         THEN deduplicateFromNamingItself(papers, i + 1, Append(unique, papers[i]),
                                          duplicates)
         ELSE deduplicateFromNamingItself(papers, i + 1, unique,
                  Append(duplicates,
                         [id |-> papers[i].id, title |-> papers[i].title,
                          duplicate_of |-> papers[i].title]))

RECURSIVE deduplicateFrom(_, _, _, _)
deduplicateFrom(papers, i, unique, duplicates) ==
    IF i > Len(papers) THEN [unique |-> unique, duplicates |-> duplicates]
    ELSE IF ~MapHas(unique, papers[i].id)
         THEN deduplicateFrom(papers, i + 1, Append(unique, papers[i]), duplicates)
         ELSE deduplicateFrom(papers, i + 1, unique,
                  Append(duplicates,
                         [id |-> papers[i].id, title |-> papers[i].title,
                          duplicate_of |-> MapGet(unique, papers[i].id).title]))

deduplicatePapers(papers) == deduplicateFrom(papers, 1, <<>>, <<>>)

\* the comparison reads publishedDate alone
RevisionDatePublishedOnly(paper) == paper.publishedDate

\* existing.updatedDate || existing.publishedDate
RevisionDate(paper) ==
    IF paper.updatedDate # 0 THEN paper.updatedDate ELSE paper.publishedDate

\* newDate > existingDate
IsNewerAtLeast(existing, newPaper) ==
    ~DateGreater(RevisionDate(existing), RevisionDate(newPaper))

IsNewer(existing, newPaper) ==
    DateGreater(RevisionDate(newPaper), RevisionDate(existing))

\* The record stored for a strictly newer revision: the incoming record
\* with the existing categories and manual tags carried over.
ReplacementDropsCuration(existing, newPaper) ==
    [newPaper EXCEPT
        !.tags = Tags(
            Some(IF newPaper.tags # None /\ newPaper.tags[1].auto # None
                 THEN newPaper.tags[1].auto[1]
                 ELSE IF newPaper.categories # None THEN newPaper.categories[1]
                 ELSE <<>>),
            Some(<<>>))]

Replacement(existing, newPaper) ==
    [newPaper EXCEPT
        \* existing.categories || newPaper.categories (an array is truthy)
        !.categories = IF existing.categories # None THEN existing.categories
                       ELSE newPaper.categories,
        !.tags = Tags(
            \* newPaper.tags?.auto || newPaper.categories || []
            Some(IF newPaper.tags # None /\ newPaper.tags[1].auto # None
                 THEN newPaper.tags[1].auto[1]
                 ELSE IF newPaper.categories # None THEN newPaper.categories[1]
                 ELSE <<>>),
            \* existing.tags?.manual || []
            Some(IF existing.tags # None /\ existing.tags[1].manual # None
                 THEN existing.tags[1].manual[1]
                 ELSE <<>>))]

RECURSIVE MapFrom(_, _, _)
MapFrom(papers, i, map) ==
    IF i > Len(papers) THEN map
    ELSE MapFrom(papers, i + 1, MapSet(map, papers[i]))

RECURSIVE mergeLoop(_, _, _, _, _)
mergeLoop(newPapers, i, map, added, updated) ==
    IF i > Len(newPapers)
    THEN [merged |-> map, added |-> added, updated |-> updated]
    ELSE LET newPaper == newPapers[i]
         IN IF ~MapHas(map, newPaper.id)
            THEN mergeLoop(newPapers, i + 1, MapSet(map, newPaper), added + 1, updated)
            ELSE LET existing == MapGet(map, newPaper.id)
                 IN IF IsNewer(existing, newPaper)
                    THEN mergeLoop(newPapers, i + 1,
                                   MapSet(map, Replacement(existing, newPaper)),
                                   added, updated + 1)
                    ELSE mergeLoop(newPapers, i + 1, map, added, updated)

mergeAppending(existingPapers, newPapers) ==
    [merged |-> existingPapers \o newPapers, added |-> Len(newPapers), updated |-> 0]

mergePapers(existingPapers, newPapers) ==
    mergeLoop(newPapers, 1, MapFrom(existingPapers, 1, <<>>), 0, 0)

----------------------------------------------------------------------------
(* Index builder (build-index.js) *)

\* Array.prototype.filter
Filter(s, Keep(_)) == SelectSeq(s, Keep)

\* the projection of a record into the index
IndexEntry(paper) ==
    [id |-> paper.id, title |-> paper.title, abstract |-> paper.abstract,
     publishedDate |-> paper.publishedDate,
     categories |-> IF paper.categories # None THEN paper.categories[1] ELSE <<>>,
     year |-> YearOf(paper.publishedDate)]

\* indexPapers.sort((a, b) => new Date(b.publishedDate) - new Date(a.publishedDate))
InsertByDate(sorted, x) ==
    LET before == Cardinality({i \in 1..Len(sorted) :
                                  sorted[i].publishedDate >= x.publishedDate})
    IN SubSeq(sorted, 1, before) \o <<x>> \o SubSeq(sorted, before + 1, Len(sorted))

RECURSIVE SortByDate(_)
SortByDate(s) ==
    IF s = <<>> THEN <<>>
    ELSE InsertByDate(SortByDate(SubSeq(s, 1, Len(s) - 1)), s[Len(s)])

\* [...new Set(years)].sort((a, b) => b - a)
RECURSIVE SortDescending(_)
SortDescending(S) ==
    IF S = {} THEN <<>>
    ELSE LET top == CHOOSE x \in S : \A y \in S : y <= x
         IN <<top>> \o SortDescending(S \ {top})

\* Array.prototype.sort() on category ids: the ids in code-unit order
CategoryIdOrder == <<"agents", "reasoning">>
SortCategoryIds(S) == Filter(CategoryIdOrder, LAMBDA c : c \in S)

\* loadBlocklist: the ids of blocklist.json, or the empty set when the file
\* is missing or cannot be parsed (blockfile = None)
loadBlocklist(blockfile) ==
    IF blockfile = None THEN {}
    ELSE {blockfile[1][i].id : i \in 1..Len(blockfile[1])}

buildIndexUnfiltered(papers, blocked) ==
    LET indexPapers == SortByDate([i \in 1..Len(papers) |-> IndexEntry(papers[i])])
    IN [meta |-> [totalPapers |-> Len(indexPapers),
                  categories |-> SortCategoryIds(
                      UNION {Range(indexPapers[i].categories) : i \in 1..Len(indexPapers)}),
                  years |-> SortDescending({indexPapers[i].year : i \in 1..Len(indexPapers)})],
        papers |-> indexPapers]

\* meta.years collected from every record, blocked or not
buildIndexYearsOfAll(papers, blocked) ==
    LET kept == Filter(papers, LAMBDA paper : paper.id \notin blocked)
        indexPapers == SortByDate([i \in 1..Len(kept) |-> IndexEntry(kept[i])])
    IN [meta |-> [totalPapers |-> Len(indexPapers),
                  categories |-> SortCategoryIds(
                      UNION {Range(indexPapers[i].categories) : i \in 1..Len(indexPapers)}),
                  years |-> SortDescending({YearOf(papers[i].publishedDate) : i \in 1..Len(papers)})],
        papers |-> indexPapers]

buildIndex(papers, blocked) ==
    LET kept == Filter(papers, LAMBDA paper : paper.id \notin blocked)
        indexPapers == SortByDate([i \in 1..Len(kept) |-> IndexEntry(kept[i])])
    IN [meta |-> [totalPapers |-> Len(indexPapers),
                  categories |-> SortCategoryIds(
                      UNION {Range(indexPapers[i].categories) : i \in 1..Len(indexPapers)}),
                  years |-> SortDescending({indexPapers[i].year : i \in 1..Len(indexPapers)})],
        papers |-> indexPapers]

----------------------------------------------------------------------------
(* Values every specification gives the variables it does not use *)

Years == {2023, 2024}
NoPapers == [y \in Years |-> <<>>]
NoResult == [merged |-> <<>>, added |-> 0, updated |-> 0]

RunIdle ==
    /\ dataPapers = NoPapers /\ publicPapers = NoPapers
    /\ index = None /\ blocklist = None
    /\ pc = "idle" /\ runKind = "none"
    /\ papersByYear = NoPapers /\ yearsLeft = <<>> /\ savedYears = {}
    /\ indexWritten = FALSE /\ exitCode = 0

MergeIdle ==
    /\ mExisting = <<>> /\ mIncoming = <<>>
    /\ mOnce = NoResult /\ mTwice = NoResult /\ mpc = "off"

IndexIdle ==
    /\ iPapers = <<>> /\ iBlock = None /\ iIndex = None /\ ipc = "off"

FetchIdle ==
    /\ fq = 0 /\ fpc = "off" /\ start = 0 /\ hasMore = FALSE
    /\ qPapers = <<>> /\ allPapers = <<>> /\ seenIds = {}
    /\ qLog = <<>> /\ lastReq = None /\ maxResults = None

CatIdle ==
    /\ cPaper = [title |-> <<>>, abstract |-> <<>>] /\ cCategories = <<>>
    /\ cResult = <<>> /\ cpc = "off"

ExtractIdle == xUrl = <<>> /\ xResult = None /\ xpc = "off"

ParseIdle ==
    /\ pFeed = <<>> /\ pStart = 0 /\ pParsed = None
    /\ pOutcome = [threw |-> FALSE, papers |-> <<>>] /\ ppc = "off"

BuildIdle ==
    /\ bDir = None /\ bBlock = None /\ bWritable = TRUE
    /\ bOld = None /\ bIndex = None /\ bOutcome = "none" /\ bpc = "off"

RateIdle ==
    /\ now = 0 /\ lastRequestTime = 0 /\ callNow = 0 /\ wakeAt = 0
    /\ rq = 0 /\ waitDone = <<>> /\ requests = <<>> /\ rpc = "off"

SaveIdle ==
    /\ sFiles = <<>> /\ sInitial = <<>> /\ sBatch = <<>> /\ sYears = <<>>
    /\ sPending = <<>> /\ sCompleted = 0 /\ sKill = None /\ sRun = 0 /\ spc = "off"

EntryIdle ==
    /\ eKind = "none" /\ eReadable = TRUE /\ eBatch = <<>>
    /\ eData = <<>> /\ ePublic = <<>> /\ eIndex = None /\ eBlock = None
    /\ eBefore = <<>> /\ eExit = 0 /\ epc = "off"

DedupIdle ==
    /\ dPapers = <<>> /\ dResult = [unique |-> <<>>, duplicates |-> <<>>] /\ dpc = "off"

ListsIdle ==
    /\ fBlocklist = <<>> /\ fSavedlist = <<>> /\ lsBlocklist = <<>> /\ lsSavedlist = <<>>

RecatIdle ==
    /\ rPapers = <<>> /\ rLoaded = <<>> /\ rCustom = <<>> /\ rCount = 0
    /\ rRemoved = FALSE /\ rcpc = "off"

UnitIdle == CatIdle /\ ExtractIdle /\ ParseIdle /\ BuildIdle /\ RateIdle /\ SaveIdle /\ EntryIdle /\ DedupIdle /\ ListsIdle /\ RecatIdle

----------------------------------------------------------------------------
(* SpecMerge: mergePapers(existing, incoming), then the same batch merged   *)
(* into the result.                                                         *)

\* Shapes of the curation fields a stored record may have: hand-curated,
\* auto-categorized, not categorized at all, categorized with no label.
StoredShapes ==
    { <<Some(<<"agents">>), Tags(Some(<<"agents">>), Some(<<"agents">>))>>,
      <<Some(<<"reasoning">>), Tags(Some(<<"reasoning">>), Some(<<>>))>>,
      <<Some(<<>>), Tags(Some(<<>>), Some(<<>>))>>,
      <<None, None>> }

\* Paper 1 is stored in every shape, at its first or at a later revision;
\* paper 2 is stored as categorizePapers left it.
ExistingUniverse ==
    { Paper(1, <<"x">>, <<>>, 202401, upd, shape[1], shape[2]) :
        upd \in {0, 202402}, shape \in StoredShapes }
    \cup { Paper(2, <<"x">>, <<>>, 202401, 0,
                 Some(<<"reasoning">>), Tags(Some(<<"reasoning">>), Some(<<>>))) }

\* Fetched records, before categorization
RawUniverse ==
    { Paper(1, <<"R">>, <<>>, 202401, upd, None, None) : upd \in {0, 202402, 202403} }
    \cup { Paper(2, <<"R">>, <<>>, 202401, upd, None, None) : upd \in {0, 202402} }

\* Incoming records: fetched records run through categorizePapers, and a
\* fetched record handed to the merge as it is.
IncomingUniverse ==
    { categorizePapers(<<raw>>, Categories)[1] : raw \in RawUniverse }
    \cup { raw \in RawUniverse : raw.updatedDate = 202403 }

MergeInit ==
    /\ mExisting \in SeqsUpTo(ExistingUniverse, MaxExisting)
    /\ mIncoming \in SeqsUpTo(IncomingUniverse, MaxIncoming)
    /\ mOnce = NoResult /\ mTwice = NoResult /\ mpc = "start"

MergeOnce ==
    /\ mpc = "start"
    /\ mOnce' = mergePapers(mExisting, mIncoming)
    /\ mpc' = "once"
    /\ UNCHANGED <<mExisting, mIncoming, mTwice>>
    /\ UNCHANGED <<runVars, indexVars, fetchVars, unitVars>>

MergeTwice ==
    /\ mpc = "once"
    /\ mTwice' = mergePapers(mOnce.merged, mIncoming)
    /\ mpc' = "twice"
    /\ UNCHANGED <<mExisting, mIncoming, mOnce>>
    /\ UNCHANGED <<runVars, indexVars, fetchVars, unitVars>>

MergeNext == MergeOnce \/ MergeTwice

InitMerge == MergeInit /\ RunIdle /\ IndexIdle /\ FetchIdle /\ UnitIdle

SpecMerge == InitMerge /\ [][MergeNext]_vars

\* C2: mergePapers is idempotent: merging the same incoming batch into the
\* result of a first merge returns the same merged records and reports
\* added = 0 and updated = 0.
C2_MergeIdempotent ==
    mpc = "twice" =>
        /\ mTwice.merged = mOnce.merged
        /\ mTwice.added = 0
        /\ mTwice.updated = 0

\* a second merge after a first one that both added and replaced records
C2_Witness ==
    /\ mpc = "twice"
    /\ mOnce.added > 0
    /\ mOnce.updated > 0

\* The stored records mergePapers sees (a later record of an id overrides
\* an earlier one) that carry manual tags and categories, each paired with
\* the one incoming record of its id when that record is strictly newer
\* and carries automatic labels.
CuratedReplacements ==
    { pair \in Range(MapFrom(mExisting, 1, <<>>)) \X Range(mIncoming) :
        LET e == pair[1]
            n == pair[2]
        IN /\ n.id = e.id
           /\ Cardinality({k \in 1..Len(mIncoming) : mIncoming[k].id = e.id}) = 1
           /\ e.categories # None /\ e.categories[1] # <<>>
           /\ e.tags # None /\ e.tags[1].manual # None
           /\ e.tags[1].manual[1] # <<>>
           /\ n.tags # None /\ n.tags[1].auto # None
           /\ DateGreater(RevisionDate(n), RevisionDate(e)) }

\* C4: when mergePapers replaces an existing record that has non-empty
\* tags.manual and non-empty categories by a strictly newer incoming record,
\* the result keeps the existing tags.manual and categories and takes the
\* incoming record's automatic labels as tags.auto.
C4_ManualTagsPreserved ==
    mpc \in {"once", "twice"} =>
        \A pair \in CuratedReplacements :
            LET e == pair[1]
                n == pair[2]
                r == MapGet(mOnce.merged, e.id)
            IN /\ MapHas(mOnce.merged, e.id)
               /\ r.updatedDate = n.updatedDate
               /\ r.tags # None
               /\ r.tags[1].manual = e.tags[1].manual
               /\ r.categories = e.categories
               /\ r.tags[1].auto = n.tags[1].auto

\* a curated record replaced by a newer revision whose automatic labels
\* differ from the curated categories
C4_Witness ==
    /\ mpc = "once"
    /\ mOnce.updated > 0
    /\ \E pair \in CuratedReplacements :
          pair[2].tags[1].auto # Some(pair[1].categories[1])

\* The ids both lists hold, the incoming list once
SharedIds ==
    { id \in IdsOf(mExisting) \cap IdsOf(mIncoming) :
        Cardinality({k \in 1..Len(mIncoming) : mIncoming[k].id = id}) = 1 }

StoredOf(id) == MapGet(MapFrom(mExisting, 1, <<>>), id)
IncomingOf(id) == mIncoming[CHOOSE k \in 1..Len(mIncoming) : mIncoming[k].id = id]

\* the revision date of a record: updatedDate, else publishedDate
RevisionOf(paper) ==
    IF paper.updatedDate # 0 THEN paper.updatedDate ELSE paper.publishedDate

StrictlyLater(id) == RevisionOf(IncomingOf(id)) > RevisionOf(StoredOf(id))

\* C14: for an id in both lists, mergePapers replaces the existing record
\* and counts it as updated exactly when the incoming revision date
\* (updatedDate, else publishedDate) is strictly later; with equal or older
\* dates the existing record is returned unchanged and is not counted.
C14_ReplacedIffStrictlyNewer ==
    mpc \in {"once", "twice"} =>
        /\ \A id \in SharedIds :
              LET e == StoredOf(id)
                  n == IncomingOf(id)
                  r == MapGet(mOnce.merged, id)
              IN /\ MapHas(mOnce.merged, id)
                 /\ IF StrictlyLater(id)
                    THEN /\ r # e
                         /\ r.title = n.title /\ r.abstract = n.abstract
                         /\ r.publishedDate = n.publishedDate
                         /\ r.updatedDate = n.updatedDate
                    ELSE r = e
        /\ UniqueIds(mIncoming) =>
              mOnce.updated = Cardinality({id \in SharedIds : StrictlyLater(id)})

\* one merge that replaced the record of one id and kept the record of
\* another id whose incoming revision carries the same date
C14_Witness ==
    /\ mpc = "once"
    /\ UniqueIds(mIncoming)
    /\ mOnce.updated = 1
    /\ \E id \in SharedIds : StrictlyLater(id)
    /\ \E id \in SharedIds :
          RevisionOf(IncomingOf(id)) = RevisionOf(StoredOf(id))

\* C15: a replacement takes the existing categories only if the existing
\* record has at least one category; when the existing categories are
\* empty or absent it takes the incoming record's categories.
C15_EmptyCategoriesYield ==
    mpc \in {"once", "twice"} =>
        \A id \in SharedIds :
            (StrictlyLater(id) /\ IncomingOf(id).categories # None) =>
                LET e == StoredOf(id)
                    n == IncomingOf(id)
                    r == MapGet(mOnce.merged, id)
                IN r.categories =
                      IF e.categories # None /\ e.categories[1] # <<>>
                      THEN e.categories
                      ELSE n.categories

----------------------------------------------------------------------------
(* SpecIndex: buildIndex(papers, blocklist) over the records of all year    *)
(* partitions and a block-list.                                             *)

IndexUniverse ==
    { Paper(id, <<"x">>, <<>>, published, 0, cats, None) :
        id \in {1, 2}, published \in {202312, 202401, 202402},
        cats \in {None, Some(<<"reasoning", "agents">>)} }

IndexInit ==
    /\ iPapers \in SeqsUpTo(IndexUniverse, MaxIndexPapers)
    /\ iBlock \in {None} \cup {Some(b) : b \in SeqsUpTo([id : {1, 2}], MaxBlocked)}
    /\ iIndex = None /\ ipc = "start"

BuildIndex ==
    /\ ipc = "start"
    /\ iIndex' = Some(buildIndex(iPapers, loadBlocklist(iBlock)))
    /\ ipc' = "built"
    /\ UNCHANGED <<iPapers, iBlock>>
    /\ UNCHANGED <<runVars, mergeVars, fetchVars, unitVars>>

IndexNext == BuildIndex

InitIndex == IndexInit /\ RunIdle /\ MergeIdle /\ FetchIdle /\ UnitIdle

SpecIndex == InitIndex /\ [][IndexNext]_vars

\* C5: no record whose id is in the block-list appears in the papers of the
\* index buildIndex produces, even when the record is in a year partition.
C5_BlockedExcluded ==
    (ipc = "built" /\ iBlock # None) =>
        \A i \in 1..Len(iIndex[1].papers) :
            \A b \in 1..Len(iBlock[1]) : iIndex[1].papers[i].id # iBlock[1][b].id

\* an index built while a blocked record is in the partitions, beside a
\* record that is not blocked
C5_Witness ==
    /\ ipc = "built"
    /\ iBlock # None
    /\ IdsOf(iPapers) \cap IdsOf(iBlock[1]) # {}
    /\ iIndex[1].papers # <<>>

\* The records of the partitions that are not blocked
Surviving ==
    {i \in 1..Len(iPapers) : iPapers[i].id \notin IdsOf(IF iBlock = None THEN <<>> ELSE iBlock[1])}

StrictlyDescending(s) == \A i, j \in 1..Len(s) : i < j => s[i] > s[j]

\* C17: in every index, meta.totalPapers is the number of index papers,
\* meta.years is the set of years of the surviving records in descending
\* order, and meta.categories is the sorted set of the category ids the
\* surviving records use; a year whose records are all blocked is absent.
C17_MetaMatchesSurvivors ==
    ipc = "built" =>
        LET meta == iIndex[1].meta
            used == UNION {IF iPapers[i].categories = None THEN {}
                           ELSE Range(iPapers[i].categories[1]) : i \in Surviving}
        IN /\ meta.totalPapers = Len(iIndex[1].papers)
           /\ meta.totalPapers = Cardinality(Surviving)
           /\ Range(meta.years) = {iPapers[i].publishedDate \div 100 : i \in Surviving}
           /\ StrictlyDescending(meta.years)
           /\ Range(meta.categories) = used
           /\ Len(meta.categories) = Cardinality(used)
           /\ \A i, j \in 1..Len(meta.categories) :
                 (meta.categories[i] = "agents" /\ meta.categories[j] = "reasoning") => i < j

\* every record of 2023 is blocked while a categorized record of 2024
\* survives: meta.years is [2024]
C17_Witness ==
    /\ ipc = "built"
    /\ \E i \in 1..Len(iPapers) : iPapers[i].publishedDate \div 100 = 2023
    /\ iIndex[1].meta.years = <<2024>>
    /\ iIndex[1].meta.categories = <<"agents", "reasoning">>

----------------------------------------------------------------------------
(* Spec: the entry points.  update-full.js reads and writes                 *)
(* public/data/papers, update-incremental.js and run-fetch.js read and      *)
(* write data/papers, build-index.js reads public/data/papers and writes    *)
(* public/data/index.json.                                                  *)

Ids == 1..MaxId

\* What the upstream serves for a paper: the submission date of an arXiv id
\* never changes; a revision changes the updated date and may change the title.
PublishedOf(id) == (2023 + (id % 2)) * 100 + id
UpdatedOf(id, ver) == PublishedOf(id) + (ver - 1)
TitleOf(id, ver) ==
    IF id = 1 THEN (IF ver = 1 THEN <<"A", "g">> ELSE <<"R">>) ELSE <<"x">>

Fetched(id, ver) ==
    Paper(id, TitleOf(id, ver), <<>>, PublishedOf(id), UpdatedOf(id, ver), None, None)

\* The upstream catalogue: paper 1 has been revised, the others have not
Revisions(id) == IF id = 1 THEN 1..MaxVer ELSE {1}
Catalogue == UNION {{Fetched(id, ver) : ver \in Revisions(id)} : id \in Ids}

\* The batches fetchPapersMultiQuery can return: no id twice
Batches == { b \in SeqsUpTo(Catalogue, MaxBatch) : UniqueIds(b) }

\* organizePapersByYear
organizePapersByYear(papers) ==
    [y \in Years |->
        Filter(papers, LAMBDA paper : YearOf(paper.publishedDate) = y)]

\* Object.keys(papersByYear).sort((a, b) => b - a)
YearsDescending(byYear) == SortDescending({y \in Years : byYear[y] # <<>>})

\* Object.entries(papersByYear): integer keys in ascending order
RECURSIVE Reverse(_)
Reverse(s) == IF s = <<>> THEN <<>> ELSE Append(Reverse(Tail(s)), Head(s))
YearsAscending(byYear) == Reverse(YearsDescending(byYear))

\* loadAllPapers: the partitions of public/data/papers in directory order
RECURSIVE ConcatYears(_, _)
ConcatYears(store, years) ==
    IF years = <<>> THEN <<>>
    ELSE store[Head(years)] \o ConcatYears(store, Tail(years))

loadAllPapers(data, public) ==
    ConcatYears(public, Reverse(SortDescending(Years)))

\* The block-list files a curator may put in place
Blockfiles == {None, Some(<<[id |-> 1]>>)}

RunInit ==
    /\ dataPapers = NoPapers /\ publicPapers = NoPapers
    /\ index = None /\ blocklist = None
    /\ pc = "idle" /\ runKind = "none"
    /\ papersByYear = NoPapers /\ yearsLeft = <<>> /\ savedYears = {}
    /\ indexWritten = FALSE /\ exitCode = 0

\* The locals of an entry point that is not running
NoRun ==
    /\ runKind' = "none"
    /\ papersByYear' = NoPapers
    /\ yearsLeft' = <<>>
    /\ savedYears' = {}

\* A curator replaces public/data/blocklist.json between runs
EditBlocklist ==
    /\ pc \in {"idle", "done", "failed"}
    /\ \E b \in Blockfiles : b # blocklist /\ blocklist' = b
    /\ UNCHANGED <<dataPapers, publicPapers, index, pc, runKind, papersByYear,
                   yearsLeft, savedYears, indexWritten, exitCode>>
    /\ UNCHANGED <<mergeVars, indexVars, fetchVars, unitVars>>

\* updateFull / updateIncremental up to the merge loop: load the categories,
\* fetch, return when nothing was fetched, else categorize, deduplicate and
\* group by year.
StartUpdate ==
    /\ pc \in {"idle", "done", "failed"}
    /\ \E kind \in {"full", "incremental"}, papers \in Batches :
        LET unique == deduplicatePapers(categorizePapers(papers, Categories)).unique
            byYear == organizePapersByYear(unique)
        IN IF Len(papers) = 0
           THEN pc' = "done" /\ NoRun
           ELSE /\ pc' = "merge"
                /\ runKind' = kind
                /\ papersByYear' = byYear
                /\ yearsLeft' = YearsDescending(byYear)
                /\ savedYears' = {}
    /\ indexWritten' = FALSE
    /\ exitCode' = 0
    /\ UNCHANGED <<dataPapers, publicPapers, index, blocklist>>
    /\ UNCHANGED <<mergeVars, indexVars, fetchVars, unitVars>>

\* run-fetch.js main up to the save loop: an empty batch is not special
StartRunFetch ==
    /\ pc \in {"idle", "done", "failed"}
    /\ \E papers \in Batches :
        LET unique == deduplicatePapers(categorizePapers(papers, Categories)).unique
            byYear == organizePapersByYear(unique)
        IN /\ papersByYear' = byYear
           /\ yearsLeft' = YearsAscending(byYear)
    /\ runKind' = "fetch"
    /\ savedYears' = {}
    /\ indexWritten' = FALSE
    /\ exitCode' = 0
    /\ pc' = "merge"
    /\ UNCHANGED <<dataPapers, publicPapers, index, blocklist>>
    /\ UNCHANGED <<mergeVars, indexVars, fetchVars, unitVars>>

\* The categories file cannot be read: the entry point exits with status 1
\* before it writes
LoadCategoriesFails ==
    /\ pc \in {"idle", "done", "failed"}
    /\ pc' = "failed"
    /\ exitCode' = 1
    /\ indexWritten' = FALSE
    /\ NoRun
    /\ UNCHANGED <<dataPapers, publicPapers, index, blocklist>>
    /\ UNCHANGED <<mergeVars, indexVars, fetchVars, unitVars>>

\* One iteration of updateFull's loop over the years
MergeYearFull ==
    /\ pc = "merge" /\ runKind = "full" /\ yearsLeft # <<>>
    /\ LET year == Head(yearsLeft)
           newPapers == papersByYear[year]
           existingPapers == publicPapers[year]
       IN /\ publicPapers' =
                [publicPapers EXCEPT ![year] =
                    IF Len(existingPapers) > 0
                    THEN mergePapers(existingPapers, newPapers).merged
                    ELSE newPapers]
          /\ savedYears' = savedYears \cup {year}
    /\ yearsLeft' = Tail(yearsLeft)
    /\ UNCHANGED <<dataPapers, index, blocklist, pc, runKind, papersByYear,
                   indexWritten, exitCode>>
    /\ UNCHANGED <<mergeVars, indexVars, fetchVars, unitVars>>

\* One iteration of updateIncremental's loop over the years
MergeYearIncremental ==
    /\ pc = "merge" /\ runKind = "incremental" /\ yearsLeft # <<>>
    /\ LET year == Head(yearsLeft)
           newPapers == papersByYear[year]
           existingPapers == dataPapers[year]
       IN /\ dataPapers' =
                [dataPapers EXCEPT ![year] = mergePapers(existingPapers, newPapers).merged]
          /\ savedYears' = savedYears \cup {year}
    /\ yearsLeft' = Tail(yearsLeft)
    /\ UNCHANGED <<publicPapers, index, blocklist, pc, runKind, papersByYear,
                   indexWritten, exitCode>>
    /\ UNCHANGED <<mergeVars, indexVars, fetchVars, unitVars>>

\* One iteration of run-fetch.js's save loop: the year file is written from
\* the batch alone
SaveYearRunFetch ==
    /\ pc = "merge" /\ runKind = "fetch" /\ yearsLeft # <<>>
    /\ LET year == Head(yearsLeft)
       IN /\ dataPapers' = [dataPapers EXCEPT ![year] = papersByYear[year]]
          /\ savedYears' = savedYears \cup {year}
    /\ yearsLeft' = Tail(yearsLeft)
    /\ UNCHANGED <<publicPapers, index, blocklist, pc, runKind, papersByYear,
                   indexWritten, exitCode>>
    /\ UNCHANGED <<mergeVars, indexVars, fetchVars, unitVars>>

\* loadYearPapers or saveYearPapers throws in an iteration, and the loop
\* goes on to the next year as if the error had been caught inside it
MergeYearFailsIgnored ==
    /\ pc = "merge" /\ yearsLeft # <<>>
    /\ yearsLeft' = Tail(yearsLeft)
    /\ UNCHANGED <<dataPapers, publicPapers, index, blocklist, pc, runKind,
                   papersByYear, savedYears, indexWritten, exitCode>>
    /\ UNCHANGED <<mergeVars, indexVars, fetchVars, unitVars>>

\* loadYearPapers or saveYearPapers throws in an iteration: the catch block
\* of the entry point prints the error and calls process.exit(1)
MergeYearFails ==
    /\ pc = "merge" /\ yearsLeft # <<>>
    /\ pc' = "failed"
    /\ exitCode' = 1
    /\ NoRun
    /\ UNCHANGED <<dataPapers, publicPapers, index, blocklist, indexWritten>>
    /\ UNCHANGED <<mergeVars, indexVars, fetchVars, unitVars>>

\* buildAndSaveIndex: nothing is written when no partition holds a record
buildAndSaveIndex ==
    LET papers == loadAllPapers(dataPapers, publicPapers)
    IN IF Len(papers) = 0
       THEN UNCHANGED <<index, indexWritten>>
       ELSE /\ index' = Some(buildIndex(papers, loadBlocklist(blocklist)))
            /\ indexWritten' = TRUE

\* After the loop: buildAndSaveIndex, then the end of the entry point;
\* run-fetch.js copies ./data over ./public/data before it ends
RebuildIndex ==
    /\ pc = "merge" /\ yearsLeft = <<>>
    /\ buildAndSaveIndex
    /\ publicPapers' =
          IF runKind = "fetch"
          THEN [y \in Years |-> IF dataPapers[y] # <<>> THEN dataPapers[y]
                                ELSE publicPapers[y]]
          ELSE publicPapers
    /\ pc' = "done"
    /\ NoRun
    /\ UNCHANGED <<dataPapers, blocklist, exitCode>>
    /\ UNCHANGED <<mergeVars, indexVars, fetchVars, unitVars>>

\* buildAndSaveIndex throws (a partition or index.json cannot be read or
\* written): the entry point exits with status 1
RebuildIndexFails ==
    /\ pc = "merge" /\ yearsLeft = <<>>
    /\ pc' = "failed"
    /\ exitCode' = 1
    /\ NoRun
    /\ UNCHANGED <<dataPapers, publicPapers, index, blocklist, indexWritten>>
    /\ UNCHANGED <<mergeVars, indexVars, fetchVars, unitVars>>

Next ==
    \/ EditBlocklist
    \/ StartUpdate
    \/ StartRunFetch
    \/ LoadCategoriesFails
    \/ MergeYearFull
    \/ MergeYearIncremental
    \/ SaveYearRunFetch
    \/ MergeYearFails
    \/ RebuildIndex
    \/ RebuildIndexFails

Init == RunInit /\ MergeIdle /\ IndexIdle /\ FetchIdle /\ UnitIdle

Spec == Init /\ [][Next]_vars

\* No id occurs twice in the partitions of one papers directory
StoreUnique(store) ==
    \A y1, y2 \in Years :
        \A i \in 1..Len(store[y1]), j \in 1..Len(store[y2]) :
            store[y1][i].id = store[y2][j].id => (y1 = y2 /\ i = j)

\* C1: after any sequence of runs from an empty store, no two records of
\* the year partitions, within one partition or across years, have the
\* same id.
C1_UniqueIds == StoreUnique(dataPapers) /\ StoreUnique(publicPapers)

\* a finished run has left records in both years, two of them in one
\* partition, one of them a record that a merge replaced by a newer revision
C1_Witness ==
    /\ pc = "done"
    /\ \E store \in {dataPapers, publicPapers} :
        /\ store[2023] # <<>>
        /\ Len(store[2024]) = 2
        /\ \E i \in 1..2 : store[2024][i].categories # store[2024][i].tags[1].auto

\* C3: ingestion never removes a stored record: every id present in a year
\* partition before a step of a full update, an incremental update or the
\* run-fetch script is still present in that partition after it.
C3_NoRecordRemoved ==
    [][\A y \in Years :
          /\ IdsOf(dataPapers[y]) \subseteq IdsOf(dataPapers'[y])
          /\ IdsOf(publicPapers[y]) \subseteq IdsOf(publicPapers'[y])]_vars

\* C6: when an incremental run that fetched a record completes, the rebuilt
\* index contains every non-blocked record of the partitions the run saved.
C6_IndexHoldsSavedRecords ==
    [][(pc = "merge" /\ runKind = "incremental" /\ pc' = "done") =>
          /\ index' # None
          /\ \A y \in savedYears :
                \A i \in 1..Len(dataPapers'[y]) :
                    dataPapers'[y][i].id \notin loadBlocklist(blocklist) =>
                        dataPapers'[y][i].id \in IdsOf(index'[1].papers)]_vars

\* C10: the index is rewritten only once every partition of the batch has
\* been written, and a failure inside the loop over the years ends the run
\* with exit status 1 and leaves the index as it was.
C10_IndexAfterAllWrites ==
    [][/\ ((indexWritten' /\ ~indexWritten) \/ index' # index) =>
            /\ pc = "merge" /\ yearsLeft = <<>>
            /\ savedYears = {y \in Years : papersByYear[y] # <<>>}
       /\ (pc = "merge" /\ yearsLeft # <<>> /\ pc' # "merge") =>
            /\ pc' = "failed" /\ exitCode' = 1
            /\ index' = index /\ ~indexWritten']_vars

\* a full or incremental run that has written one partition of its batch
\* and has another still to write
C10_Witness ==
    /\ pc = "merge"
    /\ runKind \in {"full", "incremental"}
    /\ savedYears # {}
    /\ yearsLeft # <<>>

----------------------------------------------------------------------------
(* SpecFetch: fetchPapersMultiQuery over NumQueries queries, each fetched   *)
(* page by page by fetchPapersForQuery.  The upstream answers every page    *)
(* request with an error or with any page of at most the requested length   *)
(* and any reported total.                                                  *)

NumQueries == 2               \* queries handed to fetchPapersMultiQuery
MAX_RESULTS_PER_REQUEST == 2  \* page size (100 in the source, scaled down)
MaxTotal == 3                 \* largest totalResults the upstream reports
MaxResults == 3               \* the finite value of options.maxResults

Infinity == None

Min(a, b) == IF a < b THEN a ELSE b

\* allPapers.length < maxResults
BelowMax(len, max) == IF max = Infinity THEN TRUE ELSE len < max[1]

\* every request asks for a full page
resultsToFetchFullPage(len, max) == MAX_RESULTS_PER_REQUEST

\* Math.min(MAX_RESULTS_PER_REQUEST, maxResults - allPapers.length)
resultsToFetch(len, max) ==
    IF max = Infinity THEN MAX_RESULTS_PER_REQUEST
    ELSE Min(MAX_RESULTS_PER_REQUEST, max[1] - len)

\* the offset counts pages
nextStartCountsPages(st, got) == st + 1

\* the offset is not advanced
nextStartStuck(st, got) == st

\* start += parsed.entries.length
nextStart(st, got) == st + got

\* the loop goes on after a page shorter than requested
noMoreAfterIgnoringShortPage(newStart, got, n, total) == newStart >= total

\* start >= parsed.totalResults || parsed.entries.length < resultsToFetch
noMoreAfter(newStart, got, n, total) == newStart >= total \/ got < n

\* parseArxivXML of a well-formed answer to the request (q, st, n): the
\* entries, each remembering the position the upstream served it at, and
\* the total the upstream reports
Responses(q, st, n) ==
    {[entries |-> [i \in 1..Len(ids) |->
                      [id |-> ids[i], served |-> <<q, st + i - 1>>]],
      totalResults |-> total] :
        ids \in SeqsUpTo(Ids, n), total \in 0..MaxTotal}

\* the collector keeps every paper of every query
keepAll(all, seen, papers) ==
    [allPapers |-> all \o papers, seenIds |-> seen \cup IdsOf(papers)]

\* the collector's loop over the papers of one query: a paper whose id was
\* seen is skipped, any other is recorded as seen and pushed
RECURSIVE removeDuplicates(_, _, _)
removeDuplicates(all, seen, papers) ==
    IF papers = <<>> THEN [allPapers |-> all, seenIds |-> seen]
    ELSE IF Head(papers).id \notin seen
         THEN removeDuplicates(Append(all, Head(papers)),
                               seen \cup {Head(papers).id}, Tail(papers))
         ELSE removeDuplicates(all, seen, Tail(papers))

\* the for loop's next iteration, entering fetchPapersForQuery, or the
\* collector's return after the last query
nextQuery ==
    IF fq < NumQueries
    THEN /\ fq' = fq + 1 /\ fpc' = "loop"
         /\ start' = 0 /\ hasMore' = TRUE /\ qPapers' = <<>>
    ELSE /\ fq' = fq /\ fpc' = "done"
         /\ start' = 0 /\ hasMore' = FALSE /\ qPapers' = <<>>

\* fetchPapersForQuery returns papers: the try block of the collector
queryReturns(papers) ==
    LET r == removeDuplicates(allPapers, seenIds, papers)
    IN /\ allPapers' = r.allPapers
       /\ seenIds' = r.seenIds
       /\ qLog' = Append(qLog, [outcome |-> "returned", papers |-> papers])
       /\ nextQuery

\* the collector lets the error of a query escape instead of catching it
queryThrowsUncaught ==
    /\ allPapers' = <<>> /\ seenIds' = {}
    /\ qLog' = Append(qLog, [outcome |-> "threw", papers |-> <<>>])
    /\ fq' = fq /\ fpc' = "failed"
    /\ start' = 0 /\ hasMore' = FALSE /\ qPapers' = <<>>

\* fetchPapersForQuery throws: the catch block of the collector
queryThrows ==
    /\ UNCHANGED <<allPapers, seenIds>>
    /\ qLog' = Append(qLog, [outcome |-> "threw", papers |-> <<>>])
    /\ nextQuery

FetchInit ==
    /\ fq = 1 /\ fpc = "loop"
    /\ start = 0 /\ hasMore = TRUE /\ qPapers = <<>>
    /\ allPapers = <<>> /\ seenIds = {} /\ qLog = <<>> /\ lastReq = None
    /\ maxResults \in {Infinity, Some(MaxResults)}

\* One iteration of the while loop whose request is answered and parsed,
\* and, when the loop ends with it, the return to the collector.
FetchPage ==
    /\ fpc = "loop" /\ hasMore /\ BelowMax(Len(qPapers), maxResults)
    /\ LET n == resultsToFetch(Len(qPapers), maxResults)
       IN \E parsed \in Responses(fq, start, n) :
            /\ lastReq' = Some([q |-> fq, start |-> start, max_results |-> n,
                                ok |-> TRUE, got |-> Len(parsed.entries),
                                total |-> parsed.totalResults])
            /\ IF Len(parsed.entries) = 0
               THEN queryReturns(qPapers)
               ELSE LET papers == qPapers \o parsed.entries
                        newStart == nextStart(start, Len(parsed.entries))
                        more == /\ ~noMoreAfter(newStart, Len(parsed.entries), n,
                                                parsed.totalResults)
                                /\ BelowMax(Len(papers), maxResults)
                    IN IF more /\ BelowMax(Len(papers), maxResults)
                       THEN /\ qPapers' = papers
                            /\ start' = newStart
                            /\ hasMore' = TRUE
                            /\ UNCHANGED <<fq, fpc, allPapers, seenIds, qLog>>
                       ELSE queryReturns(papers)
    /\ UNCHANGED <<maxResults, runVars, mergeVars, indexVars, unitVars>>

\* the catch block rethrows whatever the offset is
FetchPageFailsAlwaysThrows ==
    /\ fpc = "loop" /\ hasMore /\ BelowMax(Len(qPapers), maxResults)
    /\ lastReq' = Some([q |-> fq, start |-> start,
                        max_results |-> resultsToFetch(Len(qPapers), maxResults),
                        ok |-> FALSE, got |-> 0, total |-> 0])
    /\ queryThrows
    /\ UNCHANGED <<maxResults, runVars, mergeVars, indexVars, unitVars>>

\* One iteration of the while loop whose request fails (network error, HTTP
\* status, unparsable answer): the catch block of fetchPapersForQuery.
FetchPageFails ==
    /\ fpc = "loop" /\ hasMore /\ BelowMax(Len(qPapers), maxResults)
    /\ lastReq' = Some([q |-> fq, start |-> start,
                        max_results |-> resultsToFetch(Len(qPapers), maxResults),
                        ok |-> FALSE, got |-> 0, total |-> 0])
    /\ IF start = 0 THEN queryThrows ELSE queryReturns(qPapers)
    /\ UNCHANGED <<maxResults, runVars, mergeVars, indexVars, unitVars>>

FetchNext == FetchPage \/ FetchPageFails

InitFetch == FetchInit /\ RunIdle /\ MergeIdle /\ IndexIdle /\ UnitIdle

SpecFetch == InitFetch /\ [][FetchNext]_vars

\* what the queries that returned so far returned, one after the other
RECURSIVE ReturnedUpTo(_)
ReturnedUpTo(k) ==
    IF k = 0 THEN <<>>
    ELSE ReturnedUpTo(k - 1) \o
         (IF qLog[k].outcome = "returned" THEN qLog[k].papers ELSE <<>>)

\* the records of s that no earlier record of s shares its id with, in order
RECURSIVE FirstSeenUpTo(_, _)
FirstSeenUpTo(s, k) ==
    IF k = 0 THEN <<>>
    ELSE IF \E j \in 1..(k - 1) : s[j].id = s[k].id
         THEN FirstSeenUpTo(s, k - 1)
         ELSE Append(FirstSeenUpTo(s, k - 1), s[k])

IdSeq(s) == [i \in 1..Len(s) |-> s[i].id]

\* C7: the collector's result has no two records of one id and lists the
\* records in first-seen order over the queries taken in the given order.
C7_FirstSeenOrder ==
    /\ UniqueIds(allPapers)
    /\ LET all == ReturnedUpTo(Len(qLog))
       IN allPapers = FirstSeenUpTo(all, Len(all))

\* Q1 yielded [A, B], Q2 yielded [B, C] and the collector returned [A, B, C]
C7_Witness ==
    /\ fpc = "done" /\ Len(qLog) = 2
    /\ qLog[1].outcome = "returned" /\ IdSeq(qLog[1].papers) = <<1, 2>>
    /\ qLog[2].outcome = "returned" /\ IdSeq(qLog[2].papers) = <<2, 3>>
    /\ IdSeq(allPapers) = <<1, 2, 3>>

QueryFailed == Len(qLog') = Len(qLog) + 1 /\ qLog'[Len(qLog')].outcome = "threw"

\* C8: a query whose fetch fails does not fail the collector: the records
\* collected so far are kept, the next query is fetched (or, after the last
\* query, the collector returns), and what the collector returns is the
\* union of what the successful queries returned.
C8_FailedQuerySkipped ==
    [][/\ QueryFailed =>
            /\ allPapers' = allPapers /\ seenIds' = seenIds
            /\ IF fq < NumQueries
               THEN fpc' = "loop" /\ fq' = fq + 1 /\ start' = 0 /\ qPapers' = <<>>
               ELSE fpc' = "done"
       /\ fpc' = "done" =>
            /\ Len(qLog') = NumQueries
            /\ IdsOf(allPapers') =
                 UNION {IdsOf(qLog'[k].papers) :
                          k \in {j \in 1..NumQueries : qLog'[j].outcome = "returned"}}
            /\ Range(allPapers') \subseteq
                 UNION {Range(qLog'[k].papers) :
                          k \in {j \in 1..NumQueries : qLog'[j].outcome = "returned"}}]_vars

\* the collector returned the records of the successful query although the
\* fetch of another query had failed
C8_Witness ==
    /\ fpc = "done" /\ allPapers # <<>>
    /\ \E k \in 1..Len(qLog) : qLog[k].outcome = "threw"
    /\ \E k \in 1..Len(qLog) : qLog[k].outcome = "returned" /\ qLog[k].papers # <<>>

RequestFailed == lastReq' # lastReq /\ ~lastReq'[1].ok

----------------------------------------------------------------------------
(* SpecCategorize: categorizePaper(paper, categories) over short titles     *)
(* and abstracts and two category files.                                    *)

MaxText == 2          \* characters of a title and of an abstract

Alphabet == {"a", "g", "G", "R"}

\* A second categories.json: keywords of two characters in mixed case
MixedCaseCategories ==
    << [id |-> "agents",    keywords |-> << <<"a", "G">> >>],
       [id |-> "reasoning", keywords |-> << <<"g", "R">>, <<"R", "R">> >>] >>

\* A third categories.json: the second category has more keywords than
\* the first and the third
RankedCategories ==
    << [id |-> "agents",    keywords |-> << <<"a">> >>],
       [id |-> "reasoning", keywords |-> << <<"g">>, <<"a">> >>],
       [id |-> "planning",  keywords |-> << <<"G">> >>] >>

CategorizeInit ==
    /\ cPaper \in [title : SeqsUpTo(Alphabet, MaxText),
                   abstract : SeqsUpTo(Alphabet, MaxText)]
    /\ cCategories \in {Categories, MixedCaseCategories, RankedCategories}
    /\ cResult = <<>> /\ cpc = "start"

Categorize ==
    /\ cpc = "start"
    /\ cResult' = categorizePaper(cPaper, cCategories)
    /\ cpc' = "done"
    /\ UNCHANGED <<cPaper, cCategories>>
    /\ UNCHANGED otherThanCat

CategorizeNext == Categorize

InitCategorize ==
    /\ CategorizeInit /\ RunIdle /\ MergeIdle /\ IndexIdle /\ FetchIdle
    /\ ExtractIdle /\ ParseIdle /\ BuildIdle /\ RateIdle /\ SaveIdle /\ EntryIdle /\ DedupIdle /\ ListsIdle /\ RecatIdle

SpecCategorize == InitCategorize /\ [][CategorizeNext]_vars

\* two characters that differ at most in case
SameLetter(x, y) ==
    \/ x = y
    \/ {x, y} \in {{"a", "A"}, {"g", "G"}, {"r", "R"}}

\* kw occurs in text, compared case-insensitively
OccursIgnoringCase(kw, text) ==
    \E at \in 0..(Len(text) - Len(kw)) :
        \A k \in 1..Len(kw) : SameLetter(kw[k], text[at + k])

\* C16: categorizePaper assigns a category exactly when at least one of its
\* keywords occurs, compared case-insensitively as a substring, in the
\* title followed (after one space) by the abstract.
C16_AssignedIffKeywordOccurs ==
    cpc = "done" =>
        \A c \in 1..Len(cCategories) :
            (cCategories[c].id \in Range(cResult)) <=>
                \E k \in 1..Len(cCategories[c].keywords) :
                    OccursIgnoringCase(cCategories[c].keywords[k],
                                       cPaper.title \o <<" ">> \o cPaper.abstract)

\* the number of keywords of the category at position c of the category
\* definitions that occur in the paper's text
KeywordsOccurring(c) ==
    Cardinality({k \in 1..Len(cCategories[c].keywords) :
                    OccursIgnoringCase(cCategories[c].keywords[k],
                                       cPaper.title \o <<" ">> \o cPaper.abstract)})

\* the position of a category id in the category definitions
DefinedAt(id) == CHOOSE c \in 1..Len(cCategories) : cCategories[c].id = id

\* C25: the ids categorizePaper returns are in descending order of the
\* number of matching keywords, and ids with the same number keep the order
\* of the category definitions.
C25_OrderedByMatchesThenDefinition ==
    cpc = "done" =>
        \A i \in 1..Len(cResult) : \A j \in (i + 1)..Len(cResult) :
            LET mi == KeywordsOccurring(DefinedAt(cResult[i]))
                mj == KeywordsOccurring(DefinedAt(cResult[j]))
            IN /\ mi >= mj
               /\ mi = mj => DefinedAt(cResult[i]) < DefinedAt(cResult[j])

\* the second category matched twice and leads; the first and the third
\* matched once each and follow in the order of their definitions
C25_Witness ==
    /\ cpc = "done"
    /\ cCategories = RankedCategories
    /\ cResult = <<"reasoning", "agents", "planning">>
    /\ KeywordsOccurring(2) = 2
    /\ KeywordsOccurring(1) = 1 /\ KeywordsOccurring(3) = 1

\* a category assigned through a keyword written in another case than the
\* text, beside a category none of whose keywords occurs
C16_Witness ==
    /\ cpc = "done"
    /\ cCategories = MixedCaseCategories
    /\ cPaper.abstract = <<"a", "g">>
    /\ cResult = <<"agents">>

----------------------------------------------------------------------------
(* SpecExtract: extractArxivId(url).  A URL is a sequence of characters.    *)

Digits == {"0", "1", "2", "3", "4", "5", "6", "7", "8", "9"}

AllDigits(s) == \A i \in 1..Len(s) : s[i] \in Digits

\* (v\d+)?$ : what may follow the id up to the end of the URL
VersionToEnd(rest) ==
    \/ rest = <<>>
    \/ Len(rest) >= 2 /\ rest[1] = "v" /\ AllDigits(Tail(rest))

\* (\d{4}\.\d{n})(v\d+)?$ matched from position p
MatchesAt(url, p, n) ==
    /\ p + 4 + n <= Len(url)
    /\ AllDigits(SubSeq(url, p, p + 3))
    /\ url[p + 4] = "."
    /\ AllDigits(SubSeq(url, p + 5, p + 4 + n))
    /\ VersionToEnd(SubSeq(url, p + 5 + n, Len(url)))

\* the match returned with its version suffix (match[0] for match[1])
extractArxivIdWithVersion(url) ==
    LET starts == {p \in 1..Len(url) : \E n \in {4, 5} : MatchesAt(url, p, n)}
    IN IF starts = {} THEN None
       ELSE LET p == CHOOSE q \in starts : \A r \in starts : q <= r
            IN Some(SubSeq(url, p, Len(url)))

\* url.match(/(\d{4}\.\d{4,5})(v\d+)?$/): the leftmost position that
\* matches, the longer run of digits tried first; match[1], or an error
\* (None) when nothing matches
extractArxivId(url) ==
    LET starts == {p \in 1..Len(url) : \E n \in {4, 5} : MatchesAt(url, p, n)}
    IN IF starts = {} THEN None
       ELSE LET p == CHOOSE q \in starts : \A r \in starts : q <= r
                n == IF MatchesAt(url, p, 5) THEN 5 ELSE 4
            IN Some(SubSeq(url, p, p + 4 + n))

\* The URLs handed to extractArxivId: a host part, four or three digits,
\* a separator, three to six digits, and a tail
UrlHosts == { <<"/">>, <<>>, <<"1">> }
UrlLefts == { <<"2", "4", "0", "1">>, <<"4", "0", "1">> }
UrlSeparators == { <<".">>, <<"/">> }
UrlRights == { <<"1", "2", "3">>, <<"1", "2", "3", "4">>,
               <<"1", "2", "3", "4", "5">>, <<"1", "2", "3", "4", "5", "6">> }
UrlTails == { <<>>, <<"v", "2">>, <<"v", "1", "0">>, <<"v">>, <<"x">>,
              <<"v", "2", "/">> }
UrlUniverse ==
    { host \o left \o sep \o right \o tail :
        host \in UrlHosts, left \in UrlLefts, sep \in UrlSeparators,
        right \in UrlRights, tail \in UrlTails }

ExtractInit == xUrl \in UrlUniverse /\ xResult = None /\ xpc = "start"

Extract ==
    /\ xpc = "start"
    /\ xResult' = extractArxivId(xUrl)
    /\ xpc' = "done"
    /\ UNCHANGED xUrl
    /\ UNCHANGED otherThanExtract

ExtractNext == Extract

InitExtract ==
    /\ ExtractInit /\ RunIdle /\ MergeIdle /\ IndexIdle /\ FetchIdle
    /\ CatIdle /\ ParseIdle /\ BuildIdle /\ RateIdle /\ SaveIdle /\ EntryIdle /\ DedupIdle /\ ListsIdle /\ RecatIdle

SpecExtract == InitExtract /\ [][ExtractNext]_vars

\* NNNN.NNNN or NNNN.NNNNN
IdShape(s) ==
    /\ Len(s) \in {9, 10}
    /\ s[5] = "."
    /\ \A i \in 1..Len(s) : i # 5 => s[i] \in Digits

\* nothing, or v and at least one digit
VersionShape(s) ==
    s = <<>> \/ (Len(s) >= 2 /\ s[1] = "v" /\ \A i \in 2..Len(s) : s[i] \in Digits)

\* the ways to read the end of url as an id and a version suffix
TrailingSplits(url) ==
    { ij \in (1..Len(url)) \X (1..Len(url)) :
        /\ ij[1] <= ij[2]
        /\ IdShape(SubSeq(url, ij[1], ij[2]))
        /\ VersionShape(SubSeq(url, ij[2] + 1, Len(url))) }

\* C20: extractArxivId returns the trailing NNNN.NNNN(N) part of the URL
\* without its version suffix, so URLs that differ only in the version
\* suffix yield the same id; for a URL that does not end in the pattern it
\* raises an error.
C20_TrailingIdWithoutVersion ==
    xpc = "done" =>
        /\ TrailingSplits(xUrl) = {} <=> xResult = None
        /\ \A ij \in TrailingSplits(xUrl) :
              /\ xResult = Some(SubSeq(xUrl, ij[1], ij[2]))
              /\ \A suffix \in {<<>>, <<"v", "1">>, <<"v", "2">>, <<"v", "1", "0">>} :
                    extractArxivId(SubSeq(xUrl, 1, ij[2]) \o suffix) = xResult

\* a URL with a version suffix whose id was extracted without it
C20_Witness ==
    /\ xpc = "done"
    /\ xUrl = <<"/", "2", "4", "0", "1", ".", "1", "2", "3", "4", "5", "v", "2">>
    /\ xResult = Some(<<"2", "4", "0", "1", ".", "1", "2", "3", "4", "5">>)

----------------------------------------------------------------------------
(* SpecParse: one iteration of fetchPapersForQuery's loop whose answer is   *)
(* parsed by parseArxivXML: every entry is normalized by parseEntry, which  *)
(* extracts the id from the entry's URL.                                    *)

MaxEntries == 3       \* entries of one page

\* entry.id of the feed: two new-style identifiers, one of them with a
\* version suffix, and an old-style identifier
EntryUrls ==
    { <<"/", "2", "4", "0", "1", ".", "0", "0", "0", "0", "1", "v", "1">>,
      <<"/", "2", "4", "0", "2", ".", "0", "0", "0", "0", "2">>,
      <<"/", "2", "3", "1", "2", ".", "1", "2", "3", "4", "v", "3">>,
      <<"/", "9", "9", "0", "1", "0", "0", "1", "v", "1">> }

\* parseEntry: the normalized record, of which the model keeps the id
parseEntry(entry) == [id |-> extractArxivId(entry.id)[1]]

\* parseArxivXML: an error of parseEntry leaves entries.map and is rethrown
\* as 'XML parsing failed' (None)
parseArxivXML(feed) ==
    IF \E i \in 1..Len(feed) : extractArxivId(feed[i].id) = None
    THEN None
    ELSE Some([i \in 1..Len(feed) |-> parseEntry(feed[i])])

\* the records fetchPapersForQuery holds when it requests offset n
Accumulated(n) == [i \in 1..n |-> [id |-> <<"p", "r", "e", "v">>]]

ParseInit ==
    /\ pFeed \in SeqsUpTo([id : EntryUrls], MaxEntries)
    /\ pStart \in {0, 1}
    /\ pParsed = None
    /\ pOutcome = [threw |-> FALSE, papers |-> <<>>]
    /\ ppc = "start"

\* The try block of the loop and its catch block
FetchParsesPage ==
    /\ ppc = "start"
    /\ LET parsed == parseArxivXML(pFeed)
       IN /\ pParsed' = parsed
          /\ pOutcome' =
                IF parsed = None
                THEN IF pStart = 0
                     THEN [threw |-> TRUE, papers |-> <<>>]
                     ELSE [threw |-> FALSE, papers |-> Accumulated(pStart)]
                ELSE [threw |-> FALSE, papers |-> Accumulated(pStart) \o parsed[1]]
    /\ ppc' = "done"
    /\ UNCHANGED <<pFeed, pStart>>
    /\ UNCHANGED otherThanParse

ParseNext == FetchParsesPage

InitParse ==
    /\ ParseInit /\ RunIdle /\ MergeIdle /\ IndexIdle /\ FetchIdle
    /\ CatIdle /\ ExtractIdle /\ BuildIdle /\ RateIdle /\ SaveIdle /\ EntryIdle /\ DedupIdle /\ ListsIdle /\ RecatIdle

SpecParse == InitParse /\ [][ParseNext]_vars

\* C19: when an entry of a page cannot be normalized, the other entries of
\* the page are still normalized and returned by the fetch.
C19_GoodEntriesSurvive ==
    ppc = "done" =>
        \A i \in 1..Len(pFeed) :
            extractArxivId(pFeed[i].id) # None =>
                /\ ~pOutcome.threw
                /\ extractArxivId(pFeed[i].id)[1] \in IdsOf(pOutcome.papers)

----------------------------------------------------------------------------
(* SpecBuild: buildAndSaveIndex() on what it finds under public/data: the   *)
(* papers directory (absent, or a list of year files), the block-list and   *)
(* a saved index.                                                           *)

\* What a year file holds: text JSON.parse rejects, an object without a
\* papers property, an empty papers array, or records
FileContents ==
    { [parses |-> FALSE, papers |-> None],
      [parses |-> TRUE,  papers |-> None],
      [parses |-> TRUE,  papers |-> Some(<<>>)] }

YearFiles(y) ==
    { <<>> } \cup
    { <<[name |-> y, content |-> c]>> : c \in FileContents } \cup
    { <<[name |-> y,
         content |-> [parses |-> TRUE,
                      papers |-> Some(<<Paper(y - 2022, <<"x">>, <<>>, y * 100 + 1, 0,
                                              Some(<<"agents">>), None)>>)]]>> }

\* the papers directory: absent, or the files of 2023 and 2024 it holds
Directories ==
    { None } \cup { Some(f23 \o f24) : f23 \in YearFiles(2023), f24 \in YearFiles(2024) }

\* the loop of loadAllPapers over the files: None when JSON.parse throws
RECURSIVE readFiles(_, _)
readFiles(files, papers) ==
    IF files = <<>> THEN Some(papers)
    ELSE IF ~Head(files).content.parses THEN None
    ELSE readFiles(Tail(files),
                   papers \o (IF Head(files).content.papers = None THEN <<>>
                              ELSE Head(files).content.papers[1]))

\* loadAllPapers: [] when the directory does not exist (ENOENT)
loadAllPapersOf(dir) ==
    IF dir = None THEN Some(<<>>) ELSE readFiles(dir[1], <<>>)

\* the index is built and written also when no record was loaded
buildAndSaveIndexAlwaysWrites(dir, blockfile, old, writable) ==
    LET papers == loadAllPapersOf(dir)
    IN IF papers = None THEN [outcome |-> "threw", index |-> old]
       ELSE IF ~writable THEN [outcome |-> "threw", index |-> old]
       ELSE [outcome |-> "returned",
             index |-> Some(buildIndex(papers[1], loadBlocklist(blockfile)))]

\* buildAndSaveIndex: what it does to index.json and how it ends
buildAndSaveIndexOf(dir, blockfile, old, writable) ==
    LET papers == loadAllPapersOf(dir)
    IN IF papers = None THEN [outcome |-> "threw", index |-> old]
       ELSE IF Len(papers[1]) = 0 THEN [outcome |-> "returned", index |-> old]
       ELSE IF ~writable THEN [outcome |-> "threw", index |-> old]
       ELSE [outcome |-> "returned",
             index |-> Some(buildIndex(papers[1], loadBlocklist(blockfile)))]

\* an index saved by an earlier build
SavedIndex ==
    buildIndex(<<Paper(3, <<"x">>, <<>>, 202403, 0, None, None)>>, {})

BuildInit ==
    /\ bDir \in Directories
    /\ bBlock \in Blockfiles
    /\ bWritable \in BOOLEAN
    /\ bOld \in {None, Some(SavedIndex)}
    /\ bIndex = bOld
    /\ bOutcome = "none"
    /\ bpc = "start"

BuildAndSave ==
    /\ bpc = "start"
    /\ LET r == buildAndSaveIndexOf(bDir, bBlock, bOld, bWritable)
       IN bIndex' = r.index /\ bOutcome' = r.outcome
    /\ bpc' = "done"
    /\ UNCHANGED <<bDir, bBlock, bWritable, bOld>>
    /\ UNCHANGED otherThanBuild

BuildNext == BuildAndSave

InitBuild ==
    /\ BuildInit /\ RunIdle /\ MergeIdle /\ IndexIdle /\ FetchIdle
    /\ CatIdle /\ ExtractIdle /\ ParseIdle /\ RateIdle /\ SaveIdle /\ EntryIdle /\ DedupIdle /\ ListsIdle /\ RecatIdle

SpecBuild == InitBuild /\ [][BuildNext]_vars

\* no partition directory, no partition file, or only partitions that hold
\* no record
NoPartitionRecord ==
    \/ bDir = None
    \/ \A i \in 1..Len(bDir[1]) :
          /\ bDir[1][i].content.parses
          /\ bDir[1][i].content.papers \in {None, Some(<<>>)}

\* C18: when no year partition yields a record, buildAndSaveIndex ends
\* without raising an error and leaves the saved index file as it was.
C18_EmptyStoreKeepsIndex ==
    (bpc = "done" /\ NoPartitionRecord) =>
        /\ bOutcome = "returned"
        /\ bIndex = bOld

\* a build over two empty partitions that left a saved index in place
C18_Witness ==
    /\ bpc = "done"
    /\ bDir # None /\ Len(bDir[1]) = 2
    /\ NoPartitionRecord
    /\ bOld # None
    /\ bIndex = bOld

----------------------------------------------------------------------------
(* SpecRate: the module-level RateLimiter of fetch-arxiv.js and the         *)
(* requests of one run.  fetchPapersMultiQuery awaits one query at a time   *)
(* and fetchPapersForQuery one page at a time, so wait() has one caller at  *)
(* a time.  The clock counts in units of which delayMs is a few; it never   *)
(* runs backwards, and a timer is never early.  Time passes while the       *)
(* process awaits a timer or a response; the statements from the end of     *)
(* wait() to fetch(url) hold no await and read as one clock instant.        *)

delayMs == 2
MaxRequests == 3

\* the clock readings explored
Horizon == delayMs * (MaxRequests + 1)

RateInit ==
    /\ now \in {delayMs, delayMs + 1}
    /\ lastRequestTime = 0
    /\ callNow = 0
    /\ wakeAt = 0
    /\ rq = 1
    /\ waitDone = <<>>
    /\ requests = <<>>
    /\ rpc = "call"

\* time passes
Tick ==
    /\ rpc \in {"sleeping", "requesting"}
    /\ now < Horizon
    /\ now' = now + 1
    /\ UNCHANGED <<lastRequestTime, callNow, wakeAt, rq, waitDone, requests, rpc>>
    /\ UNCHANGED otherThanRate

\* the end of wait() and the fetch(url) that follows it
Issue(stamp) ==
    /\ lastRequestTime' = stamp
    /\ waitDone' = Append(waitDone, now)
    /\ requests' = Append(requests, [at |-> now, q |-> rq])
    /\ rpc' = "requesting"

\* wait() when delayMs has passed since lastRequestTime: no timer
WaitNoSleep ==
    /\ rpc = "call"
    /\ ~(now - lastRequestTime < delayMs)
    /\ callNow' = now
    /\ Issue(now)
    /\ UNCHANGED <<now, wakeAt, rq>>
    /\ UNCHANGED otherThanRate

\* wait() when it has not: a timer for the remaining time
WaitSleep ==
    /\ rpc = "call"
    /\ now - lastRequestTime < delayMs
    /\ callNow' = now
    /\ wakeAt' = now + (delayMs - (now - lastRequestTime))
    /\ rpc' = "sleeping"
    /\ UNCHANGED <<now, lastRequestTime, rq, waitDone, requests>>
    /\ UNCHANGED otherThanRate

\* lastRequestTime is the clock reading taken on entry to wait()
WakeStampsCallTime ==
    /\ rpc = "sleeping"
    /\ now >= wakeAt
    /\ Issue(callNow)
    /\ UNCHANGED <<now, callNow, wakeAt, rq>>
    /\ UNCHANGED otherThanRate

\* the timer fires, at its due time or later
Wake ==
    /\ rpc = "sleeping"
    /\ now >= wakeAt
    /\ Issue(now)
    /\ UNCHANGED <<now, callNow, wakeAt, rq>>
    /\ UNCHANGED otherThanRate

\* the response (or the error) of a request: the query asks for its next
\* page, or ends and the next query starts, or the run has no more queries
Respond ==
    /\ rpc = "requesting"
    /\ \E more \in BOOLEAN :
          LET q == IF more THEN rq ELSE rq + 1
          IN /\ rq' = q
             /\ rpc' = IF q > NumQueries \/ Len(requests) >= MaxRequests
                       THEN "done" ELSE "call"
    /\ UNCHANGED <<now, lastRequestTime, callNow, wakeAt, waitDone, requests>>
    /\ UNCHANGED otherThanRate

RateNext == Tick \/ WaitNoSleep \/ WaitSleep \/ Wake \/ Respond

InitRate ==
    /\ RateInit /\ RunIdle /\ MergeIdle /\ IndexIdle /\ FetchIdle
    /\ CatIdle /\ ExtractIdle /\ ParseIdle /\ BuildIdle /\ SaveIdle /\ EntryIdle /\ DedupIdle /\ ListsIdle /\ RecatIdle

SpecRate == InitRate /\ [][RateNext]_vars

\* C13: every request of a run was issued when a wait() of its own had
\* completed, two consecutive completions of wait() are at least delayMs
\* apart, and so are the starts of two consecutive requests, within one
\* query and from one query to the next.
C13_RequestsDelayApart ==
    /\ Len(requests) = Len(waitDone)
    /\ \A k \in 1..Len(requests) : requests[k].at >= waitDone[k]
    /\ \A k \in 1..Len(waitDone) - 1 :
          /\ waitDone[k + 1] - waitDone[k] >= delayMs
          /\ requests[k + 1].at - requests[k].at >= delayMs

\* three requests: the second in the same query after a timer (exactly
\* delayMs after the first), the third in the next query after a slow
\* response (more than delayMs later, no timer)
C13_Witness ==
    /\ Len(requests) = 3
    /\ requests[1].q = requests[2].q
    /\ requests[2].q # requests[3].q
    /\ waitDone[2] - waitDone[1] = delayMs
    /\ waitDone[3] - waitDone[2] > delayMs
    /\ callNow = waitDone[3]

----------------------------------------------------------------------------
(* SpecSave: the loop of updateIncremental over the years of a batch, with  *)
(* the year files as texts and fs.writeFile as the steps it takes: the file *)
(* is opened for writing, which empties it, and the text is then written    *)
(* piece by piece.  The first run can be killed at any step; a second run   *)
(* then ingests the same batch.  saveYearPapers of update-full.js is the    *)
(* same code.  buildAndSaveIndex, which follows the loop, writes no year    *)
(* file and is left out.                                                    *)

\* JSON.stringify({year, count, papers}): the text as a list of pieces
stringify(papers) ==
    <<[tok |-> "{"]>>
    \o [i \in 1..Len(papers) |-> [tok |-> "paper", paper |-> papers[i]]]
    \o <<[tok |-> "}"]>>

\* JSON.parse(text).papers: None when the text is not complete JSON
parsePapers(text) ==
    IF /\ Len(text) >= 2
       /\ text[1].tok = "{"
       /\ text[Len(text)].tok = "}"
    THEN Some([i \in 1..Len(text) - 2 |-> text[i + 1].paper])
    ELSE None

\* the record a year file holds and the records a batch brings for the year
StoredPaper(y) ==
    Paper(y - 2022, <<"x">>, <<>>, y * 100 + 1, 0,
          Some(<<"agents">>), Tags(Some(<<"agents">>), Some(<<>>)))

RevisedPaper(y) ==
    Paper(y - 2022, <<"R">>, <<>>, y * 100 + 1, y * 100 + 2,
          Some(<<"reasoning">>), Tags(Some(<<"reasoning">>), Some(<<>>)))

NewPaper(y) ==
    Paper(y - 2020, <<"R">>, <<>>, y * 100 + 3, 0,
          Some(<<"reasoning">>), Tags(Some(<<"reasoning">>), Some(<<>>)))

SaveInit ==
    /\ sInitial \in [Years -> {None, Some(stringify(<<>>))}
                              \cup {Some(stringify(<<StoredPaper(y)>>)) : y \in Years}]
    /\ \A y \in Years :
          sInitial[y] # None =>
              \A i \in 1..Len(parsePapers(sInitial[y][1])[1]) :
                  YearOf(parsePapers(sInitial[y][1])[1][i].publishedDate) = y
    /\ sFiles = sInitial
    /\ sBatch \in [Years -> {<<>>} \cup {<<RevisedPaper(y)>> : y \in Years}
                            \cup {<<NewPaper(y)>> : y \in Years}]
    /\ \A y \in Years :
          \A i \in 1..Len(sBatch[y]) : YearOf(sBatch[y][i].publishedDate) = y
    /\ \E y \in Years : sBatch[y] # <<>>
    /\ sYears = YearsDescending(sBatch)
    /\ sPending = <<>>
    /\ sCompleted = 0
    /\ sKill = None
    /\ sRun = 1
    /\ spc = "loop"

\* loadYearPapers: [] without a file, None when JSON.parse throws
loadYearPapers(files, y) ==
    IF files[y] = None THEN Some(<<>>) ELSE parsePapers(files[y][1])

\* loadYearPapers and mergePapers for the next year of the loop
LoadAndMerge ==
    /\ spc = "loop"
    /\ sYears # <<>>
    /\ LET existing == loadYearPapers(sFiles, Head(sYears))
       IN /\ existing # None
          /\ sPending' = stringify(mergePapers(existing[1], sBatch[Head(sYears)]).merged)
    /\ spc' = "open"
    /\ UNCHANGED <<sFiles, sInitial, sBatch, sYears, sCompleted, sKill, sRun>>
    /\ UNCHANGED otherThanSave

\* loadYearPapers rethrows what is not ENOENT; the run exits with status 1
LoadFails ==
    /\ spc = "loop"
    /\ sYears # <<>>
    /\ loadYearPapers(sFiles, Head(sYears)) = None
    /\ spc' = "failed"
    /\ UNCHANGED <<sFiles, sInitial, sBatch, sYears, sPending, sCompleted, sKill, sRun>>
    /\ UNCHANGED otherThanSave

\* fs.writeFile(yearPath, ...) opens the year file itself, emptying it
OpenYearFile ==
    /\ spc = "open"
    /\ sFiles' = [sFiles EXCEPT ![Head(sYears)] = Some(<<>>)]
    /\ spc' = "write"
    /\ UNCHANGED <<sInitial, sBatch, sYears, sPending, sCompleted, sKill, sRun>>
    /\ UNCHANGED otherThanSave

\* the next piece of the text reaches the file; after the last one
\* saveYearPapers returns and the loop goes on
WritePiece ==
    /\ spc = "write"
    /\ sFiles' = [sFiles EXCEPT ![Head(sYears)] = Some(@[1] \o <<Head(sPending)>>)]
    /\ sPending' = Tail(sPending)
    /\ IF Tail(sPending) = <<>>
       THEN /\ sYears' = Tail(sYears)
            /\ sCompleted' = IF sRun = 1 THEN sCompleted + 1 ELSE sCompleted
            /\ spc' = "loop"
       ELSE UNCHANGED <<sYears, sCompleted, spc>>
    /\ UNCHANGED <<sInitial, sBatch, sKill, sRun>>
    /\ UNCHANGED otherThanSave

\* the loop has saved every year of the batch
LoopEnds ==
    /\ spc = "loop"
    /\ sYears = <<>>
    /\ spc' = "done"
    /\ UNCHANGED <<sFiles, sInitial, sBatch, sYears, sPending, sCompleted, sKill, sRun>>
    /\ UNCHANGED otherThanSave

\* the first run is killed
Kill ==
    /\ sRun = 1
    /\ spc \in {"loop", "open", "write"}
    /\ sKill' = Some([phase |-> spc,
                      year |-> IF sYears = <<>> THEN 0 ELSE Head(sYears),
                      completed |-> sCompleted])
    /\ spc' = "killed"
    /\ UNCHANGED <<sFiles, sInitial, sBatch, sYears, sPending, sCompleted, sRun>>
    /\ UNCHANGED otherThanSave

\* the following run fetches the same batch and starts its loop
Rerun ==
    /\ spc = "killed"
    /\ sRun' = 2
    /\ sYears' = YearsDescending(sBatch)
    /\ sPending' = <<>>
    /\ spc' = "loop"
    /\ UNCHANGED <<sFiles, sInitial, sBatch, sCompleted, sKill>>
    /\ UNCHANGED otherThanSave

SaveNext ==
    LoadAndMerge \/ LoadFails \/ OpenYearFile \/ WritePiece \/ LoopEnds \/ Kill \/ Rerun

InitSave ==
    /\ SaveInit /\ RunIdle /\ MergeIdle /\ IndexIdle /\ FetchIdle
    /\ CatIdle /\ ExtractIdle /\ ParseIdle /\ BuildIdle /\ RateIdle /\ EntryIdle /\ DedupIdle /\ ListsIdle /\ RecatIdle

SpecSave == InitSave /\ [][SaveNext]_vars

\* C11: a run killed inside saveYearPapers for a year that had a saved
\* partition leaves that year's file as it was before the call.
C11_PreviousPartitionIntact ==
    (/\ spc = "killed"
     /\ sKill[1].phase \in {"open", "write"}
     /\ sInitial[sKill[1].year] # None)
        => /\ sFiles[sKill[1].year] = sInitial[sKill[1].year]
           /\ parsePapers(sFiles[sKill[1].year][1]) # None

\* what one run of the batch that is not interrupted leaves in a year file
Uninterrupted(y) ==
    IF sBatch[y] = <<>> THEN sInitial[y]
    ELSE Some(stringify(mergePapers(loadYearPapers(sInitial, y)[1], sBatch[y]).merged))

\* the first run was killed when some, not all, of its writes had completed
KilledPartway ==
    /\ sKill # None
    /\ sKill[1].completed >= 1
    /\ sKill[1].completed < Len(YearsDescending(sBatch))

\* C12: when the first run was killed after some but not all of its
\* partition writes, the run that follows with the same batch ends with
\* every year file as one uninterrupted run would have left it.
C12_RerunConverges ==
    (/\ sRun = 2
     /\ spc \in {"done", "failed"}
     /\ KilledPartway)
        => \A y \in Years : sFiles[y] = Uninterrupted(y)

\* the same, for a kill that fell between two calls of saveYearPapers
RerunConvergesBetweenWrites ==
    (/\ sRun = 2
     /\ spc \in {"done", "failed"}
     /\ KilledPartway
     /\ sKill[1].phase = "loop")
        => /\ spc = "done"
           /\ \A y \in Years : sFiles[y] = Uninterrupted(y)

----------------------------------------------------------------------------
(* SpecEntry: one run of updateFull or of updateIncremental from its first  *)
(* statement to its last, over partitions and an index that earlier runs    *)
(* left.  Reads and writes of the year files succeed here; their failures   *)
(* are the subject of Spec and SpecSave.                                    *)

\* buildAndSaveIndex as both entry points call it: it reads public/data
indexAfter(public, idx, blockfile) ==
    LET papers == ConcatYears(public, Reverse(SortDescending(Years)))
    IN IF Len(papers) = 0 THEN idx
       ELSE Some(buildIndex(papers, loadBlocklist(blockfile)))

\* updateFull's loop over the years of the batch
fullMerge(public, byYear) ==
    [y \in Years |->
        IF byYear[y] = <<>> THEN public[y]
        ELSE IF Len(public[y]) > 0 THEN mergePapers(public[y], byYear[y]).merged
        ELSE byYear[y]]

\* updateIncremental's loop over the years of the batch
incrementalMerge(data, byYear) ==
    [y \in Years |->
        IF byYear[y] = <<>> THEN data[y]
        ELSE mergePapers(data[y], byYear[y]).merged]

batchByYear(papers) ==
    organizePapersByYear(deduplicatePapers(categorizePapers(papers, Categories)).unique)

\* updateFull without the return on an empty batch
updateFullAlwaysBuilds(readable, papers, data, public, idx, blockfile) ==
    IF ~readable
    THEN [exit |-> 1, data |-> data, public |-> public, index |-> idx]
    ELSE LET saved == fullMerge(public, batchByYear(papers))
         IN [exit |-> 0, data |-> data, public |-> saved,
             index |-> indexAfter(saved, idx, blockfile)]

updateFull(readable, papers, data, public, idx, blockfile) ==
    IF ~readable
    THEN [exit |-> 1, data |-> data, public |-> public, index |-> idx]
    ELSE IF Len(papers) = 0
    THEN [exit |-> 0, data |-> data, public |-> public, index |-> idx]
    ELSE LET saved == fullMerge(public, batchByYear(papers))
         IN [exit |-> 0, data |-> data, public |-> saved,
             index |-> indexAfter(saved, idx, blockfile)]

updateIncremental(readable, papers, data, public, idx, blockfile) ==
    IF ~readable
    THEN [exit |-> 1, data |-> data, public |-> public, index |-> idx]
    ELSE IF Len(papers) = 0
    THEN [exit |-> 0, data |-> data, public |-> public, index |-> idx]
    ELSE [exit |-> 0, data |-> incrementalMerge(data, batchByYear(papers)),
          public |-> public, index |-> indexAfter(public, idx, blockfile)]

\* the partitions earlier runs can have left: per year no record, or one
\* record of the catalogue at its first revision
EntryStores ==
    { s \in [Years -> {<<>>} \cup { categorizePapers(<<Fetched(id, 1)>>, Categories)
                                        : id \in Ids }] :
        \A y \in Years : \A i \in 1..Len(s[y]) : YearOf(s[y][i].publishedDate) = y }

EntryInit ==
    /\ eKind \in {"full", "incremental"}
    /\ eReadable \in BOOLEAN
    /\ eBatch \in Batches
    /\ eData \in EntryStores
    /\ ePublic \in EntryStores
    /\ eBlock \in Blockfiles
    /\ eIndex \in {None, indexAfter(ePublic, None, None)}
    /\ eBefore = [data |-> eData, public |-> ePublic, index |-> eIndex]
    /\ eExit = 0
    /\ epc = "start"

RunUpdateFull ==
    /\ epc = "start"
    /\ eKind = "full"
    /\ LET r == updateFull(eReadable, eBatch, eData, ePublic, eIndex, eBlock)
       IN /\ eData' = r.data /\ ePublic' = r.public
          /\ eIndex' = r.index /\ eExit' = r.exit
    /\ epc' = "done"
    /\ UNCHANGED <<eKind, eReadable, eBatch, eBlock, eBefore>>
    /\ UNCHANGED otherThanEntry

RunUpdateIncremental ==
    /\ epc = "start"
    /\ eKind = "incremental"
    /\ LET r == updateIncremental(eReadable, eBatch, eData, ePublic, eIndex, eBlock)
       IN /\ eData' = r.data /\ ePublic' = r.public
          /\ eIndex' = r.index /\ eExit' = r.exit
    /\ epc' = "done"
    /\ UNCHANGED <<eKind, eReadable, eBatch, eBlock, eBefore>>
    /\ UNCHANGED otherThanEntry

EntryNext == RunUpdateFull \/ RunUpdateIncremental

InitEntry ==
    /\ EntryInit /\ RunIdle /\ MergeIdle /\ IndexIdle /\ FetchIdle
    /\ CatIdle /\ ExtractIdle /\ ParseIdle /\ BuildIdle /\ RateIdle /\ SaveIdle /\ DedupIdle /\ ListsIdle /\ RecatIdle

SpecEntry == InitEntry /\ [][EntryNext]_vars

\* C21: a run of updateFull or updateIncremental whose collector returned
\* no record ends with exit status 0 and leaves every year partition and the
\* index as they were.
C21_EmptyBatchChangesNothing ==
    (epc = "done" /\ eReadable /\ eBatch = <<>>) =>
        /\ eExit = 0
        /\ eData = eBefore.data
        /\ ePublic = eBefore.public
        /\ eIndex = eBefore.index

\* an empty full run over a store whose index a rebuild would have changed:
\* paper 1 is in the index and on the block-list
C21_Witness ==
    /\ epc = "done" /\ eReadable /\ eBatch = <<>>
    /\ eKind = "full"
    /\ eIndex # None
    /\ eIndex # indexAfter(ePublic, eIndex, eBlock)
    /\ eExit = 0

----------------------------------------------------------------------------
(* SpecTestMode: the collector as updateFull calls it with --test: the      *)
(* NumQueries queries of SEARCH_QUERIES.slice(0, 2) and                     *)
(* fetchOptions.maxResults = 50, which fetchPapersMultiQuery hands to       *)
(* every fetchPapersForQuery call.                                          *)

TestMaxResults == 2           \* maxResults of test mode (50 in the source, scaled down)

TestModeInit ==
    /\ fq = 1 /\ fpc = "loop"
    /\ start = 0 /\ hasMore = TRUE /\ qPapers = <<>>
    /\ allPapers = <<>> /\ seenIds = {} /\ qLog = <<>> /\ lastReq = None
    /\ maxResults = Some(TestMaxResults)

InitTestMode == TestModeInit /\ RunIdle /\ MergeIdle /\ IndexIdle /\ UnitIdle

SpecTestMode == InitTestMode /\ [][FetchNext]_vars

\* C22: a test-mode run fetches the queries handed to the collector and no
\* other, and what it has fetched when the collector returns is at most
\* maxResults papers in total.
C22_TestModeTotalAtMostMax ==
    fpc = "done" =>
        /\ Len(qLog) = NumQueries
        /\ Len(allPapers) <= TestMaxResults

----------------------------------------------------------------------------
(* Pagination of fetchPapersForQuery (SpecFetch).  Every step of SpecFetch  *)
(* is one page request; lastReq' describes it and the answer to it.         *)

\* the step ends the current query by returning to the collector
QueryReturned ==
    /\ Len(qLog') = Len(qLog) + 1
    /\ qLog'[Len(qLog')].outcome = "returned"

\* C23: every page request asks for min(page size, maxResults minus the
\* records collected so far) entries, at least one, and when a query
\* returns under a finite maxResults it returns at most maxResults records
\* (the upstream of the model never sends more entries than requested).
C23_RequestsRemainingAtMostMax ==
    [][/\ lastReq'[1].max_results >= 1
       /\ lastReq'[1].got <= lastReq'[1].max_results
       /\ IF maxResults = Infinity
          THEN lastReq'[1].max_results = MAX_RESULTS_PER_REQUEST
          ELSE /\ lastReq'[1].max_results =
                     Min(MAX_RESULTS_PER_REQUEST, maxResults[1] - Len(qPapers))
               /\ Len(qPapers') <= maxResults[1]
               /\ QueryReturned =>
                     Len(qLog'[Len(qLog')].papers) <= maxResults[1]]_vars

\* under a finite maxResults a query was fetched in two pages, the second
\* request asking for the one record still missing, and returned exactly
\* maxResults records
C23_Witness ==
    /\ maxResults # Infinity
    /\ lastReq # None /\ lastReq[1].ok
    /\ lastReq[1].start = MAX_RESULTS_PER_REQUEST
    /\ lastReq[1].max_results = maxResults[1] - MAX_RESULTS_PER_REQUEST
    /\ lastReq[1].max_results < MAX_RESULTS_PER_REQUEST
    /\ qLog # <<>>
    /\ qLog[Len(qLog)].outcome = "returned"
    /\ Len(qLog[Len(qLog)].papers) = maxResults[1]

\* the answer of the step's request is one after which the loop must end
PageStops ==
    /\ lastReq'[1].ok
    /\ \/ lastReq'[1].got = 0
       \/ lastReq'[1].got < lastReq'[1].max_results
       \/ start + lastReq'[1].got >= lastReq'[1].total
       \/ IF maxResults = Infinity THEN FALSE
          ELSE Len(qPapers) + lastReq'[1].got >= maxResults[1]

\* C27: after a page with no entries, or with fewer entries than requested,
\* or one that brings the offset to the reported total, or one that brings
\* the collected count to maxResults, the query returns: the next request,
\* if any, is the first request of the next query.
C27_NoRequestAfterStop ==
    [][PageStops =>
          /\ QueryReturned
          /\ Len(qLog'[Len(qLog')].papers) = Len(qPapers) + lastReq'[1].got
          /\ IF fq < NumQueries
             THEN fq' = fq + 1 /\ start' = 0 /\ qPapers' = <<>> /\ fpc' = "loop"
             ELSE fpc' = "done"]_vars

\* a query ended on a first page shorter than requested although the
\* upstream reported more, under no maxResults
C27_Witness ==
    /\ maxResults = Infinity
    /\ lastReq # None /\ lastReq[1].ok
    /\ lastReq[1].start = 0
    /\ lastReq[1].got >= 1
    /\ lastReq[1].got < lastReq[1].max_results
    /\ lastReq[1].start + lastReq[1].got < lastReq[1].total
    /\ qLog # <<>>
    /\ qLog[Len(qLog)].outcome = "returned"
    /\ Len(qLog[Len(qLog)].papers) = lastReq[1].start + lastReq[1].got

\* C28: every page request carries as start offset the number of records
\* accumulated so far for its query: 0 for the first page, and for a page
\* that follows another the previous offset plus the entries that page
\* brought, so that the records of a query were served at offsets 0, 1, 2, ...
C28_OffsetIsAccumulatedCount ==
    [][/\ lastReq'[1].start = Len(qPapers)
       /\ lastReq'[1].start = start
       /\ lastReq'[1].q = fq
       /\ \A i \in 1..Len(qPapers') : qPapers'[i].served = <<fq', i - 1>>
       /\ (lastReq # None /\ lastReq[1].q = fq)
             => lastReq'[1].start = lastReq[1].start + lastReq[1].got]_vars

\* the second page of the second query was requested at the offset its
\* first, full page ended at, and its entry was served at that offset
C28_Witness ==
    /\ lastReq # None /\ lastReq[1].ok
    /\ lastReq[1].q = 2
    /\ lastReq[1].start = MAX_RESULTS_PER_REQUEST
    /\ lastReq[1].got = 1
    /\ Len(qLog) = 2
    /\ Len(qLog[2].papers) = MAX_RESULTS_PER_REQUEST + 1
    /\ qLog[2].papers[MAX_RESULTS_PER_REQUEST + 1].served = <<2, MAX_RESULTS_PER_REQUEST>>

\* SpecFetchLive: every request is answered or fails in the end (the await
\* of fetch settles), so the loop takes its next step
SpecFetchLive == InitFetch /\ [][FetchNext]_vars /\ WF_vars(FetchNext)

\* C29: with an upstream that reports finite totals and never sends more
\* entries than requested, every query returns or raises in the end, with
\* and without a finite maxResults: a step that stays in the loop of a
\* query strictly increases the offset.
C29_QueryTerminates ==
    /\ <>(fpc = "done" /\ Len(qLog) = NumQueries)
    /\ [][(fpc' = "loop" /\ fq' = fq) =>
              /\ start' > start
              /\ start' < lastReq'[1].total]_vars

\* under no maxResults the last query was ended by the reported total
\* after two full pages
C29_Witness ==
    /\ maxResults = Infinity
    /\ fpc = "done"
    /\ lastReq # None /\ lastReq[1].ok
    /\ lastReq[1].start = MAX_RESULTS_PER_REQUEST
    /\ lastReq[1].got = MAX_RESULTS_PER_REQUEST
    /\ lastReq[1].start + lastReq[1].got >= lastReq[1].total

----------------------------------------------------------------------------
(* SpecDedup: deduplicatePapers applied to a list in which an id can come   *)
(* back with the same or with another title.                                *)

MaxDedupInput == 3

DedupUniverse ==
    { Paper(id, title, <<>>, 202401, 0, None, None) :
        id \in 1..2, title \in {<<"x">>, <<"R">>} }

DedupInit ==
    /\ dPapers \in SeqsUpTo(DedupUniverse, MaxDedupInput)
    /\ dResult = [unique |-> <<>>, duplicates |-> <<>>]
    /\ dpc = "start"

Deduplicate ==
    /\ dpc = "start"
    /\ dResult' = deduplicatePapers(dPapers)
    /\ dpc' = "done"
    /\ UNCHANGED dPapers
    /\ UNCHANGED otherThanDedup

DedupNext == Deduplicate

InitDedup ==
    /\ DedupInit /\ RunIdle /\ MergeIdle /\ IndexIdle /\ FetchIdle
    /\ CatIdle /\ ExtractIdle /\ ParseIdle /\ BuildIdle /\ RateIdle /\ SaveIdle
    /\ EntryIdle /\ ListsIdle /\ RecatIdle

SpecDedup == InitDedup /\ [][DedupNext]_vars

\* the positions of s whose id an earlier position carries, ascending
RepeatedPositions(s) ==
    {k \in 1..Len(s) : \E j \in 1..(k - 1) : s[j].id = s[k].id}

\* the first position of s with the id of position k
FirstPosition(s, k) ==
    CHOOSE i \in 1..k : s[i].id = s[k].id /\ \A j \in 1..(i - 1) : s[j].id # s[k].id

\* the k-th smallest element of a set of numbers
RECURSIVE Nth(_, _)
Nth(S, k) ==
    LET m == CHOOSE x \in S : \A y \in S : x <= y
    IN IF k = 1 THEN m ELSE Nth(S \ {m}, k - 1)

\* C24: unique holds, in input order, exactly the first record of every id;
\* duplicates holds, in input order, one entry for every later record, with
\* its id, its title and the title of the kept record of that id; so
\* unique.length + duplicates.length is the input length.
C24_FirstOccurrenceWins ==
    dpc = "done" =>
        LET rep == RepeatedPositions(dPapers)
        IN /\ dResult.unique = FirstSeenUpTo(dPapers, Len(dPapers))
           /\ UniqueIds(dResult.unique)
           /\ IdsOf(dResult.unique) = IdsOf(dPapers)
           /\ Len(dResult.duplicates) = Cardinality(rep)
           /\ \A k \in 1..Cardinality(rep) :
                 LET pos == Nth(rep, k)
                 IN dResult.duplicates[k] =
                        [id |-> dPapers[pos].id, title |-> dPapers[pos].title,
                         duplicate_of |-> dPapers[FirstPosition(dPapers, pos)].title]
           /\ Len(dResult.unique) + Len(dResult.duplicates) = Len(dPapers)

\* an id came three times, the later records under another title than the
\* first: one record kept, two duplicates reported naming the first title
C24_Witness ==
    /\ dpc = "done"
    /\ Len(dPapers) = 3
    /\ dPapers[1].id = dPapers[2].id /\ dPapers[2].id = dPapers[3].id
    /\ dPapers[2].title # dPapers[1].title
    /\ dResult.unique = <<dPapers[1]>>
    /\ Len(dResult.duplicates) = 2
    /\ dResult.duplicates[1].duplicate_of = dPapers[1].title
    /\ dResult.duplicates[1].title # dPapers[1].title

----------------------------------------------------------------------------
(* SpecLists: the six list operations of SearchFilter (docs/js/search.js),  *)
(* called in any order with any paper id, from empty lists. A Set keeps     *)
(* insertion order, which is the order of the array put in localStorage.    *)

\* Set.prototype.add
setAdd(s, x) == IF x \in Range(s) THEN s ELSE Append(s, x)

\* Set.prototype.delete
setDelete(s, x) == SelectSeq(s, LAMBDA y : y # x)

\* the constructor with nothing in localStorage
ListsInit ==
    /\ fBlocklist = <<>> /\ fSavedlist = <<>>
    /\ lsBlocklist = <<>> /\ lsSavedlist = <<>>

blockPaper ==
    \E paperId \in Ids :
        /\ fBlocklist' = setAdd(fBlocklist, paperId)
        /\ lsBlocklist' = fBlocklist'
        /\ UNCHANGED <<fSavedlist, lsSavedlist>>
        /\ UNCHANGED otherThanLists

unblockPaper ==
    \E paperId \in Ids :
        /\ fBlocklist' = setDelete(fBlocklist, paperId)
        /\ lsBlocklist' = fBlocklist'
        /\ UNCHANGED <<fSavedlist, lsSavedlist>>
        /\ UNCHANGED otherThanLists

clearBlocklist ==
    /\ fBlocklist' = <<>>
    /\ lsBlocklist' = fBlocklist'
    /\ UNCHANGED <<fSavedlist, lsSavedlist>>
    /\ UNCHANGED otherThanLists

savePaper ==
    \E paperId \in Ids :
        /\ fSavedlist' = setAdd(fSavedlist, paperId)
        /\ fBlocklist' = setDelete(fBlocklist, paperId)
        /\ lsSavedlist' = fSavedlist'
        /\ lsBlocklist' = fBlocklist'
        /\ UNCHANGED otherThanLists

unsavePaper ==
    \E paperId \in Ids :
        /\ fSavedlist' = setDelete(fSavedlist, paperId)
        /\ lsSavedlist' = fSavedlist'
        /\ UNCHANGED <<fBlocklist, lsBlocklist>>
        /\ UNCHANGED otherThanLists

clearSavedlist ==
    /\ fSavedlist' = <<>>
    /\ lsSavedlist' = fSavedlist'
    /\ UNCHANGED <<fBlocklist, lsBlocklist>>
    /\ UNCHANGED otherThanLists

ListsNext ==
    \/ blockPaper
    \/ unblockPaper
    \/ clearBlocklist
    \/ savePaper
    \/ unsavePaper
    \/ clearSavedlist

InitLists ==
    /\ ListsInit /\ RunIdle /\ MergeIdle /\ IndexIdle /\ FetchIdle
    /\ CatIdle /\ ExtractIdle /\ ParseIdle /\ BuildIdle /\ RateIdle /\ SaveIdle
    /\ EntryIdle /\ DedupIdle /\ RecatIdle

SpecLists == InitLists /\ [][ListsNext]_vars

\* C30: after any sequence of the six operations from empty lists, no paper
\* id is in both the savedlist and the blocklist.
C30_SavedAndBlockedDisjoint ==
    Range(fSavedlist) \cap Range(fBlocklist) = {}

\* what the operations do keep: localStorage holds the lists as they are
ListsPersisted ==
    lsBlocklist = fBlocklist /\ lsSavedlist = fSavedlist

----------------------------------------------------------------------------
(* SpecRecat: SearchFilter.recategorizePapers (docs/js/search.js) called    *)
(* again and again on the loaded papers, each time with the custom keywords *)
(* the user has at that moment.                                             *)

MaxRecatPapers == 2

CategoryIds == {Categories[i].id : i \in 1..Len(Categories)}

\* the customKeywords objects a call can come with; a category without an
\* entry reads as [] (customKeywords[category.id] || [])
CustomKeywordSets ==
    { [c \in CategoryIds |-> IF c \in S THEN <<kw>> ELSE <<>>] :
        S \in SUBSET CategoryIds, kw \in {<<"g">>, <<"R">>} }

\* the papers of index.json: buildIndex gives each a categories array
RecatUniverse ==
    [title : {<<>>, <<"a", "g">>, <<"R", "g">>, <<"A">>, <<"R">>},
     abstract : {<<>>, <<"R">>},
     categories : {<<>>, <<"agents">>}]

\* keywordMap[category.id] = [...defaultKeywords, ...custom], in the order
\* of categoriesData.categories
keywordMap(categoriesData, customKeywords) ==
    [i \in 1..Len(categoriesData) |->
        [id |-> categoriesData[i].id,
         keywords |-> categoriesData[i].keywords \o customKeywords[categoriesData[i].id]]]

\* keywords.filter(kw => searchText.includes(kw.toLowerCase())).length
filterCount(searchText, keywords) ==
    Cardinality({k \in 1..Len(keywords) : Includes(searchText, ToLower(keywords[k]))})

\* the loop over Object.entries(keywordMap) on the Set newCategories
RECURSIVE addMatching(_, _, _, _)
addMatching(newCategories, searchText, entries, i) ==
    IF i > Len(entries) THEN newCategories
    ELSE addMatching(
            IF /\ filterCount(searchText, entries[i].keywords) >= 2
               /\ entries[i].id \notin Range(newCategories)
            THEN Append(newCategories, entries[i].id)
            ELSE newCategories,
            searchText, entries, i + 1)

\* the body of the loop over this.papers
recategorizePaper(paper, entries) ==
    IF paper.abstract = <<>> /\ paper.title = <<>> THEN paper
    ELSE [paper EXCEPT !.categories =
            addMatching(paper.categories,
                        ToLower(paper.title \o <<" ">> \o paper.abstract),
                        entries, 1)]

RECURSIVE SumLen(_, _)
SumLen(papers, i) ==
    IF i > Len(papers) THEN 0 ELSE Len(papers[i].categories) + SumLen(papers, i + 1)

\* recategorizePapers: the papers afterwards and the updatedCount returned
recategorizePapers(papers, categoriesData, customKeywords) ==
    LET entries == keywordMap(categoriesData, customKeywords)
        after == [i \in 1..Len(papers) |-> recategorizePaper(papers[i], entries)]
    IN [papers |-> after, updatedCount |-> SumLen(after, 1) - SumLen(papers, 1)]

\* new is old with at least one keyword taken away and none added
KeywordRemoved(old, new) ==
    /\ new # old
    /\ \A c \in CategoryIds : Range(new[c]) \subseteq Range(old[c])

RecatInit ==
    /\ rPapers \in SeqsUpTo(RecatUniverse, MaxRecatPapers)
    /\ rPapers # <<>>
    /\ rLoaded = rPapers
    /\ rCustom = [c \in CategoryIds |-> <<>>]
    /\ rCount = 0
    /\ rRemoved = FALSE
    /\ rcpc = "loaded"

Recategorize ==
    \E customKeywords \in CustomKeywordSets :
        LET r == recategorizePapers(rPapers, Categories, customKeywords)
        IN /\ rPapers' = r.papers
           /\ rCount' = r.updatedCount
           /\ rRemoved' = KeywordRemoved(rCustom, customKeywords)
           /\ rCustom' = customKeywords
           /\ rcpc' = "recategorized"
           /\ UNCHANGED rLoaded
           /\ UNCHANGED otherThanRecat

RecatNext == Recategorize

InitRecat ==
    /\ RecatInit /\ RunIdle /\ MergeIdle /\ IndexIdle /\ FetchIdle
    /\ CatIdle /\ ExtractIdle /\ ParseIdle /\ BuildIdle /\ RateIdle /\ SaveIdle
    /\ EntryIdle /\ DedupIdle /\ ListsIdle

SpecRecat == InitRecat /\ [][RecatNext]_vars

\* C26: the categories recategorizePapers yields depend only on title,
\* abstract and the current keyword sets: after a custom keyword is removed,
\* the papers carry the categories that a first recategorization of the
\* loaded papers with the reduced keyword sets gives.
C26_RemovalGivesFirstCategorization ==
    (rcpc = "recategorized" /\ rRemoved) =>
        \A i \in 1..Len(rPapers) :
            Range(rPapers[i].categories) =
                Range(recategorizePaper(rLoaded[i],
                        keywordMap(Categories, rCustom)).categories)

\* what the code does give: every category carried before the call is kept
CategoriesOnlyGrow ==
    [][\A i \in 1..Len(rPapers) :
        Range(rPapers[i].categories) \subseteq Range(rPapers'[i].categories)]_recatVars

====
